---- MODULE Spec2Model ----
(***************************************************************************)
(* MareaCast: the Source Resolution Pipeline (fetchTideData and its        *)
(* adapters, cache and approximation fallback) and the curve synthesizer   *)
(* (tideMath).                                                             *)
(*                                                                         *)
(* Units.  Heights are integers in centimetres (the adapters round to two  *)
(* decimals of a metre).  The clock is in hours since the page was loaded. *)
(* Coordinates are integers                                                *)
(* in 1e-2 degree.  A time string "HH:MM" is the record of its hour digits *)
(* and its minute digits, so that "9:30" and "09:30" are different strings *)
(* that denote the same clock time.                                        *)
(***************************************************************************)
EXTENDS Integers, Sequences, FiniteSets, TLC

VARIABLES
    rev,        \* which revision of the service runs (fixed for a behaviour)
    env,        \* where it runs (host) and whether a WorldTides key is configured
    now,        \* Date.now(), in hours
    store,      \* localStorage: cache key -> TideCacheEntry or NoEntry
    portCache,  \* the memoized station catalog of the IHM revisions
    run,        \* the locals of the fetchTideData call in progress
    late,       \* AEMET calls abandoned by the orchestrator's timeout
    nQueries,   \* fetchTideData calls made so far
    calc,       \* the last call of a function of tideMath: arguments and value
    app         \* the state of the App component and the calls it awaits

vars == <<rev, env, now, store, portCache, run, late, nQueries, calc, app>>

-----------------------------------------------------------------------------
(* Bounds of the model *)

MaxQueries == 2

MaxClock == 2

-----------------------------------------------------------------------------
(* Time strings *)

\* "HH:MM" as String(h).padStart(2,'0') + ':' + String(m).padStart(2,'0')
Pad2(h, m) == [hh |-> <<h \div 10, h % 10>>, mm |-> <<m \div 10, m % 10>>]

\* "H:MM": an hour written with one digit, as a provider may send it
Raw1(h, m) == [hh |-> <<h>>, mm |-> <<m \div 10, m % 10>>]

\* The characters of a time string as collation weights: ':' is punctuation
\* and sorts before every digit.
Chars(t) == t.hh \o <<-1>> \o t.mm

RECURSIVE SeqCompare(_, _)
SeqCompare(a, b) ==
    IF a = <<>> /\ b = <<>> THEN 0
    ELSE IF a = <<>> THEN -1
    ELSE IF b = <<>> THEN 1
    ELSE IF Head(a) < Head(b) THEN -1
    ELSE IF Head(a) > Head(b) THEN 1
    ELSE SeqCompare(Tail(a), Tail(b))

\* a.time.localeCompare(b.time)
localeCompare(s, t) == SeqCompare(Chars(s), Chars(t))

RECURSIVE DigitsValue(_)
DigitsValue(ds) ==
    IF ds = <<>> THEN 0 ELSE 10 * DigitsValue(SubSeq(ds, 1, Len(ds) - 1)) + ds[Len(ds)]

\* timeToDecimal, in minutes instead of decimal hours
timeToDecimal(t) == 60 * DigitsValue(t.hh) + DigitsValue(t.mm)

-----------------------------------------------------------------------------
(* Tide events and Array.prototype.sort *)

Ev(t, h, k) == [time |-> t, height |-> h, type |-> k]

RECURSIVE InsertSorted(_, _)
InsertSorted(sorted, e) ==
    IF sorted = <<>> THEN <<e>>
    ELSE IF localeCompare(sorted[Len(sorted)].time, e.time) <= 0
         THEN Append(sorted, e)
         ELSE Append(InsertSorted(SubSeq(sorted, 1, Len(sorted) - 1), e), sorted[Len(sorted)])

RECURSIVE SortByTime(_)
\* tides.sort((a, b) => a.time.localeCompare(b.time)); the sort is stable
SortByTime(tides) ==
    IF tides = <<>> THEN <<>>
    ELSE InsertSorted(SortByTime(SubSeq(tides, 1, Len(tides) - 1)), tides[Len(tides)])

RECURSIVE SeqMax(_)
SeqMax(s) == IF Len(s) = 1 THEN s[1]
             ELSE LET m == SeqMax(Tail(s)) IN IF s[1] > m THEN s[1] ELSE m

RECURSIVE SeqMin(_)
SeqMin(s) == IF Len(s) = 1 THEN s[1]
             ELSE LET m == SeqMin(Tail(s)) IN IF s[1] < m THEN s[1] ELSE m

Heights(tides) == [i \in 1..Len(tides) |-> tides[i].height]

\* Math.round(x / d) for integers x and d > 0: halves round towards +Infinity
RoundDiv(x, d) == (2 * x + d) \div (2 * d)

\* the height parseFloat gives for a text that does not start with a number:
\* not a number, a value apart from every height
NaN == 0 - 1000000

\* Math.min(120, Math.max(20, Math.round((range / 4) * 100))), heights in cm.
\* Math.max() of no numbers is -Infinity and Math.min() is +Infinity, so an
\* empty list has range -Infinity and the inner max yields 20.  Math.max and
\* Math.min of a list with a NaN are NaN, and so is all that follows.
Coefficient(tides) ==
    IF tides = <<>> THEN 20
    ELSE IF \E i \in 1..Len(tides) : tides[i].height = NaN THEN NaN
    ELSE LET range == SeqMax(Heights(tides)) - SeqMin(Heights(tides))
             raw   == RoundDiv(range, 4)
             low   == IF raw < 20 THEN 20 ELSE raw
         IN  IF low > 120 THEN 120 ELSE low

\* generateTideCurve: no points for fewer than 2 events, else one point
\* every 15 minutes from 0 to 24 inclusive.  Only the number of points is kept.
ChartPoints(tides) == IF Len(tides) < 2 THEN 0 ELSE 24 * 4 + 1

-----------------------------------------------------------------------------
(* Provider adapters.  An adapter's `null` and its empty list are both the  *)
(* empty sequence: every caller tests `!tides || tides.length === 0`.       *)

\* typeLabel.includes('PLEA') || typeLabel.includes('ALTA'), on the labels
\* the payloads of the model carry (upper-cased by the adapter)
IsHighLabel(label) == label \in {"pleamar", "PLEAMAR", "alta", "Marea alta"}

\* One structured entry of an AEMET day: kept when it has a time and a
\* numeric height.
AemetEntryEvents(entry) ==
    IF entry.hasTime /\ entry.numeric
    THEN <<Ev(entry.hora, entry.altura, IF IsHighLabel(entry.tipo) THEN "HIGH" ELSE "LOW")>>
    ELSE <<>>

RECURSIVE AemetEntries(_)
AemetEntries(entries) ==
    IF entries = <<>> THEN <<>>
    ELSE AemetEntryEvents(Head(entries)) \o AemetEntries(Tail(entries))

\* The free-text pattern /(pleamar|bajamar)[^0-9]*(\d{1,2}:\d{2})[^0-9]*([0-9]+[,.]?[0-9]*)/gi
\* over the serialized day: every match is an event, its height unsigned.
RECURSIVE AemetTextEvents(_)
AemetTextEvents(matches) ==
    IF matches = <<>> THEN <<>>
    ELSE <<Ev(Head(matches).hora, Head(matches).altura,
              IF IsHighLabel(Head(matches).tipo) THEN "HIGH" ELSE "LOW")>>
         \o AemetTextEvents(Tail(matches))

RECURSIVE AemetDays(_, _)
\* the loop over candidateDays: the text pattern is tried on a day only
\* while no event has been collected so far
AemetDays(days, tides) ==
    IF days = <<>> THEN tides
    ELSE LET day    == Head(days)
             withEs == tides \o AemetEntries(day.entries)
             withTx == IF withEs = <<>> THEN AemetTextEvents(day.text) ELSE withEs
         IN  AemetDays(Tail(days), withTx)

RECURSIVE UniqueTides(_, _)
\* the reduce that keeps the first event of every (time, type)
UniqueTides(tides, acc) ==
    IF tides = <<>> THEN acc
    ELSE LET tide   == Head(tides)
             exists == \E i \in 1..Len(acc) :
                           acc[i].time = tide.time /\ acc[i].type = tide.type
         IN  UniqueTides(Tail(tides), IF exists THEN acc ELSE Append(acc, tide))

normalizeAemetTides(raw) ==
    LET tides == AemetDays(raw, <<>>)
    IN  IF tides = <<>> THEN <<>> ELSE SortByTime(UniqueTides(tides, <<>>))

RECURSIVE FoundTides(_, _)
\* the pattern1 loop of getTideDataFromTablademareas: at most 8 matches with
\* 0 < height < 10 m are kept, the hour padded to two digits
FoundTides(matches, found) ==
    IF matches = <<>> \/ Len(found) >= 8 THEN found
    ELSE LET m == Head(matches)
         IN  FoundTides(Tail(matches),
                        IF m.height > 0 /\ m.height < 1000
                        THEN Append(found, [time |-> Pad2(m.h, m.m), height |-> m.height])
                        ELSE found)

\* local maxima are HIGH, local minima LOW, the list taken as a ring
ClassifyFound(f) ==
    LET n == Len(f)
        prev(i) == IF i > 1 THEN f[i - 1].height ELSE f[n].height
        next(i) == IF i < n THEN f[i + 1].height ELSE f[1].height
        one(i)  == IF f[i].height > prev(i) /\ f[i].height > next(i)
                   THEN <<Ev(f[i].time, f[i].height, "HIGH")>>
                   ELSE IF f[i].height < prev(i) /\ f[i].height < next(i)
                   THEN <<Ev(f[i].time, f[i].height, "LOW")>>
                   ELSE <<>>
        Upto[i \in 0..n] == IF i = 0 THEN <<>> ELSE Upto[i - 1] \o one(i)
    IN  Upto[n]

\* when nothing was classified, the first four found alternate HIGH/LOW
AlternateFound(f) ==
    LET k == IF Len(f) < 4 THEN Len(f) ELSE 4
    IN  [i \in 1..k |-> Ev(f[i].time, f[i].height, IF i % 2 = 1 THEN "HIGH" ELSE "LOW")]

\* the events getTideDataFromTablademareas has in `tides` when it reaches its
\* return statement
TablademareasTides(matches) ==
    LET found  == FoundTides(matches, <<>>)
        sorted == SortByTime(found)
    IN  IF Len(found) >= 2
        THEN (IF ClassifyFound(sorted) = <<>>
              THEN AlternateFound(sorted) ELSE ClassifyFound(sorted))
        ELSE <<>>

\* an adapter that returns whatever it classified
TablademareasParse_AnyEvent(matches) == SortByTime(TablademareasTides(matches))

\* return tides.length >= 2 ? tides.sort(...) : null
TablademareasParse(matches) ==
    LET tides == TablademareasTides(matches)
    IN  IF Len(tides) >= 2 THEN SortByTime(tides) ELSE <<>>

\* getTideDataFromAPI on data.heights: the interior local extrema
WorldTidesParse(heights) ==
    LET n == Len(heights)
        one(i) == IF heights[i].height > heights[i - 1].height
                     /\ heights[i].height > heights[i + 1].height
                  THEN <<Ev(Pad2(heights[i].h, heights[i].m), heights[i].height, "HIGH")>>
                  ELSE IF heights[i].height < heights[i - 1].height
                          /\ heights[i].height < heights[i + 1].height
                  THEN <<Ev(Pad2(heights[i].h, heights[i].m), heights[i].height, "LOW")>>
                  ELSE <<>>
        Upto[i \in 1..(IF n < 2 THEN 1 ELSE n - 1)] ==
            IF i = 1 THEN <<>> ELSE Upto[i - 1] \o one(i)
    IN  IF n < 3 THEN <<>> ELSE SortByTime(Upto[n - 1])

-----------------------------------------------------------------------------
(* The local approximation of the current service *)

\* JavaScript's %: the remainder has the sign of the dividend
JsRem(a, b) == IF a >= 0 THEN a % b ELSE -((-a) % b)

Abs(x) == IF x < 0 THEN -x ELSE x

Clamp(x, lo, hi) == IF x < lo THEN lo ELSE IF x > hi THEN hi ELSE x

\* Math.abs(Math.sin(lat * Math.PI / 180)) in thousandths, for the latitudes
\* of the stations of the model (sin 42.24 = 0.672, sin 43.55 = 0.689)
SinLatPermille(lat) == CASE lat = 4224 -> 672 [] lat = 4355 -> 689 [] OTHER -> 0

\* an approximation that yields the first high tide only
calculateApproximateTides_OneTide(lat, lng, date) == << Ev(Pad2(6, 0), 300, "HIGH") >>

\* an approximation whose four events are all high tides
calculateApproximateTides_AllHigh(lat, lng, date) ==
    << Ev(Pad2(0, 30), 300, "HIGH"), Ev(Pad2(6, 42), 310, "HIGH"),
       Ev(Pad2(12, 55), 300, "HIGH"), Ev(Pad2(19, 7), 310, "HIGH") >>

\* calculateApproximateTides(lat, lng, date) of the current service.  The
\* date enters through the local time of day (minutes) and through
\* sin(phaseAngle) of the lunar phase (thousandths).  Times are computed in
\* 1/10000 minute, heights in 1/6 mm, and rounded as the code rounds them.
calculateApproximateTides(lat, lng, date) ==
    LET day         == 24 * 60 * 10000
        halfPeriod  == 3726000                       \* tidePeriod / 2 = 6.21 h
        coefficient == 50 + RoundDiv(70 * Abs(date.sinPhase), 1000)
        baseHour    == JsRem(date.localMinutes * 10000 + lng * 400, day)
        baseHigh    == 6 * 2500 + 12 * SinLatPermille(lat)
        baseLow     == 6 * 500 + 3 * SinLatPermille(lat)
        heightRange == coefficient * 100
        lunarAdj    == date.sinPhase * 300           \* sin(phaseAngle) * 0.5 h
        event(i)    ==
            LET isHigh    == i % 2 = 0
                eventHour == JsRem(baseHour + i * halfPeriod, day)
                adjusted  == JsRem(eventHour + lunarAdj + day, day)
                hours     == adjusted \div 600000
                minutes   == (adjusted % 600000) \div 10000
                height    == Clamp(IF isHigh THEN baseHigh + heightRange
                                             ELSE baseLow - heightRange,
                                   600, 36000)
            IN  Ev(Pad2(hours, minutes), RoundDiv(height, 60),
                   IF isHigh THEN "HIGH" ELSE "LOW")
    IN  SortByTime(<<event(0), event(1), event(2), event(3)>>)

\* the dates of the model: local time of day and sin of the lunar phase angle
Dates == { [localMinutes |-> 570,  sinPhase |-> 1000],
           [localMinutes |-> 1410, sinPhase |-> -500] }

-----------------------------------------------------------------------------
(* The stations of the current service and the geocoder's world *)

\* SPANISH_PORT_MAPPING, in the order of its keys: the entries of Vigo, of
\* Gijon (three keys) and of Aviles, the first and the last with an AEMET id
SPANISH_PORT_MAPPING ==
    << [key |-> "vigo",   name |-> "Vigo",  lat |-> 4224, lng |-> -872, aemetId |-> TRUE],
       [key |-> "gijón",  name |-> "Gijón", lat |-> 4355, lng |-> -566, aemetId |-> FALSE],
       [key |-> "gijon",  name |-> "Gijón", lat |-> 4355, lng |-> -566, aemetId |-> FALSE],
       [key |-> "oviedo", name |-> "Gijón", lat |-> 4355, lng |-> -566, aemetId |-> FALSE],
       [key |-> "avilés", name |-> "Avilés", lat |-> 4356, lng |-> -592, aemetId |-> TRUE] >>

\* the query strings of the model
Queries == {"Vigo", "Oviedo", "Paris", "43.55, -5.66", "43.550,-5.66", "95, 10", ""}

\* query.match(/^(-?\d+\.?\d*),\s*(-?\d+\.?\d*)$/)
CoordMatch(query) == query \in {"43.55, -5.66", "43.550,-5.66", "95, 10"}

\* parseFloat of the two groups of the match
ParsedCoords(query) ==
    IF query = "95, 10" THEN [lat |-> 9500, lng |-> 1000] ELSE [lat |-> 4355, lng |-> -566]

\* `${lat}, ${lng}` of the parsed numbers
CoordsName(c) == IF c.lat = 9500 THEN "95, 10" ELSE "43.55, -5.66"

\* the requests geocodeLocation of the current service sends for a query:
\* the reverse lookup for coordinates within range, else the search
GeocodeRequests(query) ==
    IF CoordMatch(query)
    THEN LET c == ParsedCoords(query)
         IN  IF c.lat < -9000 \/ c.lat > 9000 \/ c.lng < -18000 \/ c.lng > 18000
             THEN <<>> ELSE <<"reverse">>
    ELSE <<"search">>

\* what Nominatim's search answers for a query when it answers with a result
NominatimSearch(query) ==
    CASE query = "Vigo"   -> [lat |-> 4224, lng |-> -872, name |-> "Vigo, Pontevedra, Galicia, España"]
      [] query = "Oviedo" -> [lat |-> 4336, lng |-> -584, name |-> "Oviedo, Asturias, España"]
      [] OTHER            -> [lat |-> 4886, lng |-> 235,  name |-> "Paris, Île-de-France, France"]

\* queries for which the search has a result at all
Searchable == {"Vigo", "Oviedo", "Paris"}

\* display_name of Nominatim's reverse lookup of 43.55, -5.66
NominatimReverse(query) == "Gijón, Asturias, España"

\* locationName.toLowerCase().trim() is a key of the mapping
ExactKey(name) ==
    CASE name = "Vigo" -> "vigo" [] name = "Oviedo" -> "oviedo" [] OTHER -> "none"

\* the keys k with normalizedName.includes(k) || k.includes(normalizedName)
PartialKeys(name) ==
    CASE name = "Vigo, Pontevedra, Galicia, España" -> {"vigo"}
      [] name = "Oviedo, Asturias, España"          -> {"oviedo"}
      [] name = "Gijón, Asturias, España"           -> {"gijón"}
      [] name = "Vigo"                              -> {"vigo"}
      [] name = "Oviedo"                            -> {"oviedo"}
      [] OTHER                                      -> {}

PortOf(entry) == [name |-> entry.name, lat |-> entry.lat, lng |-> entry.lng,
                  aemetId |-> entry.aemetId, distance |-> [known |-> FALSE, value |-> 0]]

\* squared Math.sqrt(Math.pow(lat - port.lat, 2) + Math.pow(lng - port.lng, 2))
Distance2(lat, lng, port) ==
    (lat - port.lat) * (lat - port.lat) + (lng - port.lng) * (lng - port.lng)

\* a resolver whose last step takes the first station of the table
findNearestSpanishPort_FirstOfTable(lat, lng, locationName) ==
    LET M == SPANISH_PORT_MAPPING
        named == {i \in 1..Len(M) : M[i].key = ExactKey(locationName)
                                      \/ M[i].key \in PartialKeys(locationName)}
    IN  IF named # {} THEN PortOf(M[CHOOSE i \in named : \A j \in named : i <= j])
        ELSE [PortOf(M[1]) EXCEPT !.aemetId = FALSE,
                                  !.distance = [known |-> TRUE, value |-> 0]]

\* findNearestSpanishPort of the current service: exact key, then the first
\* key that contains or is contained in the name, both returned as the entry
\* is (without a distance), then the first nearest, which is returned as
\* { name, lat, lng, distance }: without its aemetId.  The distance is kept
\* squared.
findNearestSpanishPort(lat, lng, locationName) ==
    LET M == SPANISH_PORT_MAPPING
        n == Len(M)
        exact   == {i \in 1..n : M[i].key = ExactKey(locationName)}
        partial == {i \in 1..n : M[i].key \in PartialKeys(locationName)}
        nearest == CHOOSE i \in 1..n :
                       /\ \A j \in 1..n : Distance2(lat, lng, M[i]) <= Distance2(lat, lng, M[j])
                       /\ \A j \in 1..(i - 1) : Distance2(lat, lng, M[j]) > Distance2(lat, lng, M[i])
        first(S) == CHOOSE i \in S : \A j \in S : i <= j
    IN  IF exact # {} THEN PortOf(M[first(exact)])
        ELSE IF partial # {} THEN PortOf(M[first(partial)])
        ELSE [PortOf(M[nearest]) EXCEPT !.aemetId = FALSE,
                                        !.distance = [known |-> TRUE,
                                                      value |-> Distance2(lat, lng, M[nearest])]]

\* port.name.toLowerCase().replace(/\s+/g, '-')
CacheKey(port) ==
    CASE port.name = "Vigo" -> "vigo" [] port.name = "Avilés" -> "avilés" [] OTHER -> "gijón"

-----------------------------------------------------------------------------
(* What the external services may answer *)

Entry(t, h, label) == [hasTime |-> TRUE, numeric |-> TRUE, hora |-> t, altura |-> h, tipo |-> label]

\* AEMET payloads (a list of days, each with structured entries and with the
\* matches the free-text pattern finds in it)
AemetFullDay ==
    << [entries |-> << Entry(Pad2(5, 12), 410, "PLEAMAR"), Entry(Pad2(11, 24), 60, "BAJAMAR"),
                       Entry(Pad2(17, 41), 402, "PLEAMAR"), Entry(Pad2(23, 48), 77, "BAJAMAR") >>,
        text |-> <<>>] >>

AemetPayloads ==
    { \* a day of four structured entries
      AemetFullDay,
      \* a day with one usable entry, sent twice, and one without a height
      << [entries |-> << Entry(Pad2(9, 30), 180, "Marea alta"), Entry(Pad2(9, 30), 180, "Marea alta"),
                         [hasTime |-> TRUE, numeric |-> FALSE, hora |-> Pad2(15, 40), altura |-> 0,
                          tipo |-> "BAJAMAR"] >>,
          text |-> <<>>] >>,
      \* an unstructured day: the pattern finds hours written with one digit
      << [entries |-> <<>>,
          text |-> << [hora |-> Raw1(5, 12), altura |-> 410, tipo |-> "pleamar"],
                      [hora |-> Pad2(11, 24), altura |-> 60, tipo |-> "bajamar"] >>] >>,
      \* a day with nothing in it
      << [entries |-> <<>>, text |-> <<>>] >> }

Match(h, m, height) == [h |-> h, m |-> m, height |-> height]

\* what pattern1 finds in the page of tablademareas.com
TablademareasPages ==
    { << Match(5, 12, 410) >>,
      << Match(5, 12, 410), Match(0, 0, 0), Match(11, 24, 60) >>,
      << Match(3, 0, 100), Match(9, 0, 200), Match(15, 0, 200) >>,
      << Match(2, 0, 150), Match(8, 0, 150), Match(14, 0, 150), Match(20, 0, 150) >> }

\* data.heights of WorldTides
WorldTidesHeights ==
    { <<>>,
      << Match(2, 0, 100), Match(3, 0, 300), Match(4, 0, 100) >>,
      << Match(0, 0, 50), Match(3, 0, 380), Match(9, 0, -20), Match(15, 0, 400), Match(21, 0, 10),
         Match(23, 0, 90) >>,
      \* today and tomorrow: the high water of 03:00 comes twice
      << Match(0, 0, 50), Match(3, 0, 380), Match(9, 0, 20), Match(15, 0, 400), Match(21, 0, 10),
         Match(3, 0, 390), Match(9, 0, 30) >> }

-----------------------------------------------------------------------------
(* The cache *)

TIDE_CACHE_TTL == 6

\* let portCache: IhmPort[] | null = null
NoCatalog == [loaded |-> FALSE, ports |-> <<>>]

NoEntry == [missing |-> TRUE]

CacheKeys == {"vigo", "gijón", "avilés"}

\* localStorage exists in a browser only; without it both accessors fail
\* inside their try block
hasLocalStorage == env.host # "node"

\* a cache that is never read
loadCachedTides_Never(key) == <<>>

\* a cache whose entries expire an instant early: >= for >
loadCachedTides_Strict(key) ==
    IF ~hasLocalStorage \/ store[key] = NoEntry THEN <<>>
    ELSE IF now - store[key].savedAt >= TIDE_CACHE_TTL THEN <<>>
    ELSE store[key].tides

\* loadCachedTides: the entry's events unless there is none or it is older
\* than the TTL
loadCachedTides(key) ==
    IF ~hasLocalStorage \/ store[key] = NoEntry THEN <<>>
    ELSE IF now - store[key].savedAt > TIDE_CACHE_TTL THEN <<>>
    ELSE store[key].tides

\* saveCachedTides: the store after the call
saveCachedTides(key, tides) ==
    IF hasLocalStorage
    THEN [store EXCEPT ![key] = [tides |-> tides, savedAt |-> now]]
    ELSE store

-----------------------------------------------------------------------------
(* fetchTideData of the current service (src/services/tideApiService.ts).   *)
(* The code between two awaits is an operator on the call's locals; the     *)
(* actions further down are the answers of the awaited services.            *)

Undefined == "undefined"

NoCoordinates == [undefined |-> TRUE]

NoResult == [pending |-> TRUE]

NoPort == [none |-> TRUE]

Attempt(provider, outcome, parsed) ==
    [provider |-> provider, outcome |-> outcome, parsed |-> parsed]

NoAttempt == Attempt("none", "none", <<>>)

DefaultSun == [sunrise |-> "07:00", sunset |-> "20:00"]

\* MOCK_TIDE_DATA.tides
MOCK_TIDES == << Ev(Pad2(5, 12), 410, "HIGH"), Ev(Pad2(11, 24), 60, "LOW"),
                 Ev(Pad2(17, 41), 402, "HIGH"), Ev(Pad2(23, 48), 77, "LOW") >>

\* The locals of a call, and the record of what it did.  geocoded: the
\* geocoder gave a place.  atFetch: the station's cache entry and the time
\* when the station was resolved.  providerCalls: the adapters invoked.
\* networkCalls: the provider requests sent.  lastAttempt: how the last
\* request to a provider ended and the events its adapter had parsed from
\* the answer.  tidesFrom: the branch that produced the events.  hint: the
\* name the station resolver was given.  matched: the station was found by
\* that name.  distance: the distance to the station the resolver reported.
\* afterRefresh: whether the call before this one replaced an expired cache
\* entry, when, and under which key.
IdleRun ==
    [pc |-> "idle", locationQuery |-> "", name |-> "", lat |-> 0, lng |-> 0,
     requestedCoordinates |-> NoCoordinates, sunData |-> DefaultSun, tides |-> <<>>,
     aemetId |-> FALSE, dataSource |-> "", dataDisclaimer |-> Undefined,
     sourceError |-> Undefined, isApproximate |-> FALSE,
     referenceLocationName |-> Undefined, referenceCoordinates |-> NoCoordinates,
     port |-> NoPort, matched |-> FALSE, hint |-> "",
     distance |-> [known |-> FALSE, value |-> 0],
     geocoded |-> FALSE, geoRequests |-> <<>>, atFetch |-> [entry |-> NoEntry, at |-> 0],
     providerCalls |-> <<>>, networkCalls |-> <<>>, lastAttempt |-> NoAttempt,
     tidesFrom |-> "none",
     afterRefresh |-> [refreshed |-> FALSE, at |-> 0, key |-> "none"],
     result |-> NoResult]


\* const allowDirectAemet = !isBrowser || window.location.hostname === 'localhost'
allowDirectAemet == env.host # "production"

allowDirectScrape == allowDirectAemet

NoGeo == [undefined |-> TRUE]

\* a geocoder that takes the place from the answer of the reverse lookup
geocodeLocation_PlaceOfAnswer(query, response) ==
    IF CoordMatch(query)
    THEN LET c == ParsedCoords(query)
         IN  IF c.lat < -9000 \/ c.lat > 9000 \/ c.lng < -18000 \/ c.lng > 18000
             THEN NoGeo
             ELSE IF response = "ok"
             THEN [lat |-> 4354, lng |-> -566, name |-> NominatimReverse(query)]
             ELSE [lat |-> c.lat, lng |-> c.lng, name |-> CoordsName(c)]
    ELSE IF response = "ok" /\ query \in Searchable THEN NominatimSearch(query)
    ELSE NoGeo

\* geocodeLocation of the current service; response is what Nominatim does:
\* "ok", "empty" (no result) or "error" (network error, HTTP error, timeout)
geocodeLocation(query, response) ==
    IF CoordMatch(query)
    THEN LET c == ParsedCoords(query)
         IN  IF c.lat < -9000 \/ c.lat > 9000 \/ c.lng < -18000 \/ c.lng > 18000
             THEN NoGeo
             ELSE [lat |-> c.lat, lng |-> c.lng,
                   name |-> IF response = "ok" THEN NominatimReverse(query)
                            ELSE CoordsName(c)]
    ELSE IF response = "ok" /\ query \in Searchable THEN NominatimSearch(query)
    ELSE NoGeo

\* lines 616-634: the geocoder's result, or the coordinates parsed again, or
\* the default location
MainAfterGeocode(r, geoData) ==
    LET geo == IF geoData # NoGeo THEN geoData
               ELSE IF CoordMatch(r.locationQuery)
               THEN [lat |-> ParsedCoords(r.locationQuery).lat,
                     lng |-> ParsedCoords(r.locationQuery).lng,
                     name |-> r.locationQuery]
               ELSE [lat |-> 4224, lng |-> -872,
                     name |-> IF r.locationQuery = "" THEN "Vigo" ELSE r.locationQuery]
    IN  [r EXCEPT !.pc = "sun", !.name = geo.name, !.lat = geo.lat, !.lng = geo.lng,
                  !.hint = geo.name, !.geocoded = geoData # NoGeo,
                  !.requestedCoordinates = [lat |-> geo.lat, lng |-> geo.lng]]

\* a snapshot whose requested place is read after the station overwrote the
\* coordinates
MainResult_StationAsRequested(r) ==
    [requestedName |-> r.name, locationName |-> r.name,
     coordinates |-> [lat |-> r.lat, lng |-> r.lng],
     referenceLocationName |-> r.referenceLocationName,
     referenceCoordinates |-> r.referenceCoordinates,
     requestedCoordinates |-> [lat |-> r.lat, lng |-> r.lng],
     dataSource |-> IF r.dataSource = "" THEN "Origen no determinado" ELSE r.dataSource,
     isApproximate |-> r.isApproximate,
     dataDisclaimer |-> IF r.isApproximate /\ r.dataDisclaimer = Undefined
                        THEN "Datos aproximados generados al no disponer de predicción oficial en este entorno."
                        ELSE r.dataDisclaimer,
     sourceError |-> r.sourceError,
     coefficient |-> Coefficient(r.tides),
     sun |-> r.sunData,
     tides |-> SortByTime(r.tides),
     chartData |-> ChartPoints(r.tides)]

\* a snapshot that never carries the flag
MainResult_Unflagged(r) ==
    [requestedName |-> r.locationQuery, locationName |-> r.name,
     coordinates |-> [lat |-> r.lat, lng |-> r.lng],
     referenceLocationName |-> r.referenceLocationName,
     referenceCoordinates |-> r.referenceCoordinates,
     requestedCoordinates |-> r.requestedCoordinates,
     dataSource |-> IF r.dataSource = "" THEN "Origen no determinado" ELSE r.dataSource,
     isApproximate |-> FALSE,
     dataDisclaimer |-> r.dataDisclaimer,
     sourceError |-> r.sourceError,
     coefficient |-> Coefficient(r.tides),
     sun |-> r.sunData,
     tides |-> SortByTime(r.tides),
     chartData |-> ChartPoints(r.tides)]

\* the snapshot returned at lines 751-769
MainResult(r) ==
    [requestedName |-> r.locationQuery, locationName |-> r.name,
     coordinates |-> [lat |-> r.lat, lng |-> r.lng],
     referenceLocationName |-> r.referenceLocationName,
     referenceCoordinates |-> r.referenceCoordinates,
     requestedCoordinates |-> r.requestedCoordinates,
     dataSource |-> IF r.dataSource = "" THEN "Origen no determinado" ELSE r.dataSource,
     isApproximate |-> r.isApproximate,
     dataDisclaimer |-> IF r.isApproximate /\ r.dataDisclaimer = Undefined
                        THEN "Datos aproximados generados al no disponer de predicción oficial en este entorno."
                        ELSE r.dataDisclaimer,
     sourceError |-> r.sourceError,
     coefficient |-> Coefficient(r.tides),
     sun |-> r.sunData,
     tides |-> SortByTime(r.tides),
     chartData |-> ChartPoints(r.tides)]

\* the snapshot of the catch block, lines 771-786: the mocked day
MainMockResult(r) ==
    LET q == IF r.locationQuery = "" THEN "Vigo" ELSE r.locationQuery
    IN  [requestedName |-> q, locationName |-> "${requestedName} (Simulado)",
         coordinates |-> [lat |-> 4354, lng |-> -672],
         referenceLocationName |-> "${requestedName} (simulado)",
         referenceCoordinates |-> NoCoordinates,
         requestedCoordinates |-> [lat |-> 4354, lng |-> -672],
         dataSource |-> "Simulación de respaldo",
         isApproximate |-> TRUE,
         dataDisclaimer |-> "Datos simulados por error en las fuentes oficiales. Configura un proxy AEMET/tablas en producción para obtener datos reales.",
         sourceError |-> Undefined,
         coefficient |-> 82,
         sun |-> [sunrise |-> "08:54", sunset |-> "19:28"],
         tides |-> MOCK_TIDES,
         chartData |-> ChartPoints(MOCK_TIDES)]

\* lines 716-769: approximate when no provider gave events, then build the
\* snapshot; the throw of line 729 is caught at line 771
MainFinish(r, date) ==
    LET approx == r.tides = <<>>
        r1 == IF approx
              THEN [r EXCEPT
                      !.tides = calculateApproximateTides(r.lat, r.lng, date),
                      !.tidesFrom = "approximation",
                      !.isApproximate = TRUE,
                      !.dataSource = IF @ = "" THEN "Cálculo aproximado local" ELSE @,
                      !.dataDisclaimer =
                          IF r.sourceError # Undefined
                          THEN "Datos aproximados por falta de respuesta de APIs (p.ej. CORS): ${sourceError}"
                          ELSE "Datos aproximados calculados localmente; confirma con una fuente oficial si necesitas precisión."]
              ELSE r
    IN  IF r1.tides = <<>>
        THEN [r1 EXCEPT !.pc = "done", !.tides = MOCK_TIDES, !.tidesFrom = "mock",
                        !.result = MainMockResult(r1)]
        ELSE [r1 EXCEPT !.pc = "done", !.tides = SortByTime(r1.tides),
                        !.result = MainResult(r1)]

\* lines 708-714: what getTideDataFromAPI, or the 8 s timer, gave
MainAfterWorldTides(r, response, date) ==
    LET tides == WorldTidesParse(response.body)
    IN  MainFinish([r EXCEPT !.tides = tides,
                             !.lastAttempt = IF response.outcome = "no key" THEN @
                                             ELSE Attempt("WorldTides", response.outcome, tides),
                             !.tidesFrom = IF tides # <<>> THEN "WorldTides" ELSE @,
                             !.dataSource = IF tides # <<>> THEN "WorldTides API (estimación)" ELSE @],
                   date)

\* lines 701-707: WorldTides is asked when there are no events yet; without
\* an API key getTideDataFromAPI returns null before any request
MainEnterWorldTides(r, date) ==
    IF r.tides = <<>>
    THEN LET r1 == [r EXCEPT !.providerCalls = Append(@, "WorldTides")]
         IN  IF env.worldTidesKey
             THEN [r1 EXCEPT !.pc = "worldtides", !.networkCalls = Append(@, "WorldTides")]
             ELSE MainAfterWorldTides(r1, [outcome |-> "no key", body |-> <<>>], date)
    ELSE MainFinish(r, date)

\* lines 690-695: what getTideDataFromTablademareas, or the 10 s timer, gave
MainAfterTablademareas(r, response, date) ==
    LET tides == TablademareasParse(response.body)
    IN  MainEnterWorldTides(
            [r EXCEPT !.tides = tides,
                      !.lastAttempt = Attempt("tablademareas", response.outcome,
                                              TablademareasTides(response.body)),
                      !.tidesFrom = IF tides # <<>> THEN "tablademareas" ELSE @,
                      !.dataSource = IF tides # <<>> THEN "tablademareas.com (IHM)" ELSE @],
            date)

\* an orchestrator that never scrapes
MainEnterTablademareas_Skipped(r, date) == MainEnterWorldTides(r, date)

\* lines 683-698
MainEnterTablademareas(r, date) ==
    IF r.tides = <<>> /\ allowDirectScrape
    THEN [r EXCEPT !.pc = "tablademareas",
                   !.providerCalls = Append(@, "tablademareas"),
                   !.networkCalls = Append(@, "tablademareas")]
    ELSE IF ~allowDirectScrape /\ r.tides = <<>>
    THEN MainEnterWorldTides(
             [r EXCEPT !.sourceError = "Necesitas un proxy para consultar tablademareas.com sin CORS."],
             date)
    ELSE MainEnterWorldTides(r, date)

\* lines 672-674: what fetchAemetTideData (or the 10 s timer) gave
MainAfterAemet(r, tides, from, date) ==
    MainEnterTablademareas(
        [r EXCEPT !.tides = tides,
                  !.lastAttempt = IF from \in {"cache", "no id"} THEN @
                                  ELSE Attempt("AEMET", IF from = "AEMET" THEN "ok" ELSE from,
                                               tides),
                  !.tidesFrom = IF tides # <<>> THEN from ELSE @,
                  !.dataSource = IF tides # <<>> THEN "AEMET (predicción marítima)" ELSE @],
        date)

\* an orchestrator that has scraped in vain before it asks AEMET
MainEnterAemet_ScrapeFirst(r, port, date) ==
    IF allowDirectAemet
    THEN [r EXCEPT !.pc = "aemet",
                   !.providerCalls = @ \o <<"tablademareas", "AEMET">>,
                   !.networkCalls = @ \o <<"tablademareas", "AEMET">>]
    ELSE MainEnterTablademareas(r, date)

\* lines 666-681 with the start of fetchAemetTideData (lines 306-314): the
\* cache is read first, then a port without AEMET id gives null, else the
\* request is sent
MainEnterAemet(r, port, date) ==
    IF allowDirectAemet
    THEN LET r1     == [r EXCEPT !.providerCalls = Append(@, "AEMET")]
             cached == loadCachedTides(CacheKey(port))
         IN  IF cached # <<>> THEN MainAfterAemet(r1, cached, "cache", date)
             ELSE IF ~port.aemetId THEN MainAfterAemet(r1, <<>>, "no id", date)
             ELSE [r1 EXCEPT !.pc = "aemet", !.networkCalls = Append(@, "AEMET")]
    ELSE MainEnterTablademareas(
             [r EXCEPT !.sourceError = "AEMET requiere un proxy backend por CORS en producción."],
             date)

\* lines 639-665: the sun times, then the station, which replaces the name
\* and the coordinates of the call
MainAfterSun(r, sun, date) ==
    LET port == findNearestSpanishPort(r.lat, r.lng, r.name)
    IN  MainEnterAemet(
            [r EXCEPT !.sunData = sun, !.name = port.name, !.lat = port.lat, !.lng = port.lng,
                      !.aemetId = port.aemetId,
                      !.matched = ~port.distance.known, !.distance = port.distance,
                      !.atFetch = [entry |-> store[CacheKey(port)], at |-> now],
                      !.referenceLocationName = port.name,
                      !.referenceCoordinates = [lat |-> port.lat, lng |-> port.lng]],
            port, date)

-----------------------------------------------------------------------------
(* The actions: a call of fetchTideData, the answers of the services it     *)
(* awaits, and the passing of time between calls.                           *)

Revisions == {"current", "ihmApprox", "ihmOnly", "aemet250"}

\* where the service runs and how it is configured
Environments ==
    [host : {"node", "localhost", "production"}, worldTidesKey : BOOLEAN]

ApiSun == [sunrise |-> "08:54", sunset |-> "19:28"]

\* what a request may come to: an answer with a body, an error (network or
\* HTTP status), or the timer that races with it
Responses(bodies, failures) ==
    [outcome : {"ok"}, body : bodies] \cup [outcome : failures, body : {<<>>}]

\* no call is in progress
Idle == run.pc = "idle"

\* the promise of fetchTideData is settled: resolved with a snapshot, or rejected
Settled == run.pc \in {"done", "rejected"}

\* localStorage outlives the page: it is empty, or it holds what an earlier
\* session of the same origin saved for a station that AEMET knows, an hour
\* less than the TTL ago or an hour more
InitialStores ==
    {[k \in CacheKeys |-> NoEntry]} \cup
    { [k \in CacheKeys |-> IF k = "vigo" THEN [tides |-> normalizeAemetTides(AemetFullDay),
                                               savedAt |-> 0 - age]
                           ELSE NoEntry] :
      age \in {a \in {TIDE_CACHE_TTL - 1, TIDE_CACHE_TTL + 1} :
                  rev = "current" /\ env.host = "localhost"} }

\* the App component as useState constructs it (App.tsx, lines 136-138), no
\* call awaited, the context menu closed
NoApp ==
    [loading |-> TRUE, data |-> "null", location |-> "Vigo",
     contextMenu |-> [visible |-> FALSE, inputValue |-> ""],
     mounted |-> FALSE, geolocation |-> TRUE, pending |-> <<>>, locating |-> 0,
     lastQuery |-> "", loads |-> 0]

\* no function of tideMath has been called; none of them has a throw
\* statement, so the error of a call stays "none"
NoCalc == [op |-> "none", tides |-> <<>>, t |-> 0, height |-> 0, isRising |-> FALSE,
           curve |-> <<>>, error |-> "none", time |-> Pad2(0, 0)]

\* the IHM revisions read neither the host nor a key
Init ==
    /\ rev \in Revisions
    /\ env \in Environments
    /\ rev # "current" => env = [host |-> "production", worldTidesKey |-> FALSE]
    /\ now = 0
    /\ store \in InitialStores
    /\ portCache = NoCatalog
    /\ run = IdleRun
    /\ late = {}
    /\ nQueries = 0
    /\ calc = NoCalc
    /\ app = NoApp

\* whether the call r replaced an expired cache entry of its station by the
\* events AEMET gave it, when, and under which key
Refreshed(r) ==
    LET refreshed == r.atFetch.entry # NoEntry /\ r.tidesFrom = "AEMET"
    IN  [refreshed |-> refreshed, at |-> IF refreshed THEN r.atFetch.at ELSE 0,
         key |-> IF refreshed THEN CacheKey(r) ELSE "none"]

\* fetchTideData(locationQuery) is called
Call(query) ==
    /\ rev = "current"
    /\ Idle
    /\ nQueries < MaxQueries
    /\ nQueries' = nQueries + 1
    /\ run' = [run EXCEPT !.pc = "geocoding", !.locationQuery = query,
                          !.geoRequests = GeocodeRequests(query)]
    /\ UNCHANGED <<app, calc, rev, env, now, store, portCache, late>>

\* geocodeLocation returns
GeocodeReturns ==
    /\ rev = "current"
    /\ run.pc = "geocoding"
    /\ \E response \in {"ok", "empty", "error"} :
           run' = MainAfterGeocode(run, geocodeLocation(run.locationQuery, response))
    /\ UNCHANGED <<app, calc, rev, env, now, store, portCache, late, nQueries>>

\* the race of getSunTimes with its 5 s timer is decided
SunReturns ==
    /\ rev = "current"
    /\ run.pc = "sun"
    /\ \E sun \in {DefaultSun, ApiSun}, date \in Dates :
           run' = MainAfterSun(run, sun, date)
    /\ UNCHANGED <<app, calc, rev, env, now, store, portCache, late, nQueries>>

\* an AEMET answer that is saved whatever it holds, an empty list included
AemetReturns_SavesAnyAnswer ==
    /\ rev = "current"
    /\ run.pc = "aemet"
    /\ \E response \in Responses(AemetPayloads, {"error"}), date \in Dates :
           LET tides == normalizeAemetTides(response.body)
           IN  /\ store' = saveCachedTides(CacheKey(run), tides)
               /\ run' = MainAfterAemet(run, tides,
                                        IF response.outcome = "ok" THEN "AEMET" ELSE "error", date)
    /\ UNCHANGED <<app, calc, rev, env, now, portCache, late, nQueries>>

\* fetchAemetTideData, lines 316-335: the two requests are answered before
\* the orchestrator's 10 s timer; events are saved to the cache
AemetReturns ==
    /\ rev = "current"
    /\ run.pc = "aemet"
    /\ \E response \in Responses(AemetPayloads, {"error"}), date \in Dates :
           LET tides == normalizeAemetTides(response.body)
           IN  /\ store' = IF tides # <<>>
                           THEN saveCachedTides(CacheKey(run), tides) ELSE store
               /\ run' = MainAfterAemet(run, tides,
                                        IF response.outcome = "ok" THEN "AEMET" ELSE "error", date)
    /\ UNCHANGED <<app, calc, rev, env, now, portCache, late, nQueries>>

\* the 10 s timer of line 670 wins the race: the orchestrator goes on with
\* null and the request stays in flight
AemetTimesOut ==
    /\ rev = "current"
    /\ run.pc = "aemet"
    /\ \E date \in Dates : run' = MainAfterAemet(run, <<>>, "timeout", date)
    /\ late' = late \cup {CacheKey(run)}
    /\ UNCHANGED <<app, calc, rev, env, now, store, portCache, nQueries>>

\* an abandoned AEMET request is answered after all
LateAemetReturns ==
    /\ \E key \in late, response \in Responses(AemetPayloads, {"error"}) :
           LET tides == normalizeAemetTides(response.body)
           IN  /\ store' = IF tides # <<>> THEN saveCachedTides(key, tides) ELSE store
               /\ late' = late \ {key}
    /\ UNCHANGED <<app, calc, rev, env, now, portCache, run, nQueries>>

\* getTideDataFromTablademareas returns, or its 10 s timers fire
TablademareasReturns ==
    /\ rev = "current"
    /\ run.pc = "tablademareas"
    /\ \E response \in Responses(TablademareasPages, {"error", "timeout"}), date \in Dates :
           run' = MainAfterTablademareas(run, response, date)
    /\ UNCHANGED <<app, calc, rev, env, now, store, portCache, late, nQueries>>

\* getTideDataFromAPI returns, or the 8 s timer fires
WorldTidesReturns ==
    /\ rev = "current"
    /\ run.pc = "worldtides"
    /\ \E response \in Responses(WorldTidesHeights, {"error", "timeout"}), date \in Dates :
           run' = MainAfterWorldTides(run, response, date)
    /\ UNCHANGED <<app, calc, rev, env, now, store, portCache, late, nQueries>>

\* the caller takes what the promise settled with (App.tsx: setTideData, or
\* its catch block) and the call's locals are gone
Return ==
    /\ Settled
    /\ run' = [IdleRun EXCEPT !.afterRefresh = Refreshed(run)]
    /\ UNCHANGED <<app, calc, rev, env, now, store, portCache, late, nQueries>>

\* an hour passes between two calls
Tick ==
    /\ Idle
    /\ now < MaxClock
    /\ now' = now + 1
    /\ UNCHANGED <<app, calc, rev, env, store, portCache, run, late, nQueries>>

-----------------------------------------------------------------------------
(* The IHM revisions of the service (src/unnamed/part_005): the one that    *)
(* approximates when the IHM gives nothing (lines 1-408) and the one that   *)
(* knows the IHM only (lines 410-687).                                      *)

\* /ihm-ports.json
IhmPorts ==
    << [id |-> "36", puerto |-> "Vigo",  lat |-> 4224, lon |-> -872],
       [id |-> "12", puerto |-> "Gijón", lat |-> 4355, lon |-> -566] >>

\* a height as the IHM writes it: digits, a separator, two digits; or a text
\* that is no number
Altura(whole, cents, sep) == [numeric |-> TRUE, whole |-> whole, cents |-> cents, sep |-> sep]

NoAltura == [numeric |-> FALSE, whole |-> 0, cents |-> 0, sep |-> "."]

Marea(t, altura, tipo) == [hora |-> t, altura |-> altura, tipo |-> tipo]

\* mareas.datos of the answers of the IHM
IhmPayloads ==
    { [hasMarea |-> TRUE,
       marea |-> << Marea(Pad2(5, 12), Altura(4, 10, "."), "pleamar"),
                    Marea(Pad2(11, 24), Altura(0, 60, "."), "bajamar"),
                    Marea(Pad2(17, 41), Altura(4, 2, "."), "pleamar"),
                    Marea(Pad2(23, 48), Altura(0, 77, "."), "bajamar") >>],
      [hasMarea |-> TRUE,
       marea |-> << Marea(Pad2(9, 10), Altura(0, 95, ","), "bajamar"),
                    Marea(Pad2(3, 0), Altura(3, 45, ","), "pleamar") >>],
      [hasMarea |-> TRUE,
       marea |-> << Marea(Pad2(2, 0), Altura(6, 0, "."), "Pleamar"),
                    Marea(Pad2(8, 0), Altura(0, 50, "."), "bajamar") >>],
      [hasMarea |-> TRUE, marea |-> << Marea(Pad2(7, 30), NoAltura, "pleamar") >>],
      [hasMarea |-> TRUE, marea |-> <<>>],
      [hasMarea |-> FALSE, marea |-> <<>>] }

\* parseFloat(m.altura): reads up to the first character that is no part of
\* a number, so up to a comma
parseFloat(altura) ==
    IF ~altura.numeric THEN NaN
    ELSE IF altura.sep = "." THEN 100 * altura.whole + altura.cents
    ELSE 100 * altura.whole

\* Number(entry.altura.replace(",", "."))
NumberOfAltura(altura) ==
    IF ~altura.numeric THEN NaN ELSE 100 * altura.whole + altura.cents

\* great-circle distance of utils/tideMath, whose source is not at hand; the
\* model orders its stations as the plane does
getHaversineDistance(lat1, lon1, lat2, lon2) ==
    (lat1 - lat2) * (lat1 - lat2) + (lon1 - lon2) * (lon1 - lon2)

\* geocodeLocation of the IHM revisions: coordinates are taken as written,
\* a name is searched
Ihm_geocodeLocation(query, response) ==
    IF CoordMatch(query)
    THEN [lat |-> ParsedCoords(query).lat, lng |-> ParsedCoords(query).lng, name |-> query]
    ELSE IF response = "ok" /\ query \in Searchable THEN NominatimSearch(query)
    ELSE NoGeo

\* findNearestPort: the first of the nearest ports (distance < minDistance)
findNearestPort(lat, lng, ports) ==
    LET d(i) == getHaversineDistance(lat, lng, ports[i].lat, ports[i].lon)
    IN  ports[CHOOSE i \in 1..Len(ports) :
                  /\ \A j \in 1..Len(ports) : d(i) <= d(j)
                  /\ \A j \in 1..(i - 1) : d(j) > d(i)]

\* the call fails: the promise of fetchTideData is rejected
Reject(r) == [r EXCEPT !.pc = "rejected", !.result = [rejected |-> TRUE]]

\* lines 651-655: the events of the answer
IhmOnly_tides(marea) ==
    [i \in 1..Len(marea) |->
        Ev(marea[i].hora, parseFloat(marea[i].altura),
           IF marea[i].tipo = "pleamar" THEN "HIGH" ELSE "LOW")]

\* lines 617-622 and the call of line 625
IhmOnly_AfterLoadPorts(r, allPorts) ==
    IF allPorts = <<>> THEN Reject(r) ELSE [r EXCEPT !.pc = "geocoding"]

\* lines 626-641
IhmOnly_AfterGeocode(r, geoData) ==
    IF geoData = NoGeo THEN Reject(r)
    ELSE [r EXCEPT !.pc = "ihm", !.geocoded = TRUE,
                   !.port = findNearestPort(geoData.lat, geoData.lng, portCache.ports),
                   !.providerCalls = Append(@, "IHM"),
                   !.networkCalls = Append(@, "IHM")]

\* lines 642-661; the answer names the port that was asked for
IhmOnly_AfterTides(r, response) ==
    IF response.outcome # "ok" \/ ~response.body.hasMarea THEN Reject(r)
    ELSE [r EXCEPT !.pc = "sun", !.tides = IhmOnly_tides(response.body.marea),
                   !.tidesFrom = "IHM",
                   !.name = r.port.puerto, !.lat = r.port.lat, !.lng = r.port.lon]

\* lines 664-686: a snapshot without source, disclaimer or isApproximate
IhmOnly_Result(r) ==
    [requestedName |-> r.locationQuery, locationName |-> r.name,
     coordinates |-> [lat |-> r.lat, lng |-> r.lng],
     coefficient |-> Coefficient(r.tides),
     sun |-> r.sunData,
     tides |-> SortByTime(r.tides),
     chartData |-> ChartPoints(r.tides)]

IhmOnly_Call(query) ==
    /\ rev = "ihmOnly"
    /\ Idle
    /\ nQueries < MaxQueries
    /\ nQueries' = nQueries + 1
    /\ LET r == [run EXCEPT !.locationQuery = query]
       IN  run' = IF portCache.loaded THEN IhmOnly_AfterLoadPorts(r, portCache.ports)
                  ELSE [r EXCEPT !.pc = "catalog", !.networkCalls = Append(@, "catalog")]
    /\ UNCHANGED <<app, calc, rev, env, now, store, portCache, late>>

\* loadPorts of lines 457-474 gets its answer: the list is kept, even an
\* empty one; after an error nothing is kept and the result is []
IhmOnly_LoadPortsReturns ==
    /\ rev = "ihmOnly"
    /\ run.pc = "catalog"
    /\ \E response \in Responses({IhmPorts, <<>>}, {"error"}) :
           /\ portCache' = IF response.outcome = "ok" THEN [loaded |-> TRUE, ports |-> response.body]
                           ELSE portCache
           /\ run' = IhmOnly_AfterLoadPorts(run, response.body)
    /\ UNCHANGED <<app, calc, rev, env, now, store, late, nQueries>>

IhmOnly_GeocodeReturns ==
    /\ rev = "ihmOnly"
    /\ run.pc = "geocoding"
    /\ \E response \in {"ok", "empty", "error"} :
           run' = IhmOnly_AfterGeocode(run, Ihm_geocodeLocation(run.locationQuery, response))
    /\ UNCHANGED <<app, calc, rev, env, now, store, portCache, late, nQueries>>

\* getTideDataFromIdeihm returns
IhmOnly_TidesReturn ==
    /\ rev = "ihmOnly"
    /\ run.pc = "ihm"
    /\ \E response \in Responses(IhmPayloads, {"error"}) : run' = IhmOnly_AfterTides(run, response)
    /\ UNCHANGED <<app, calc, rev, env, now, store, portCache, late, nQueries>>

\* getSunTimes returns, with the times of the API or with its fallback
IhmOnly_SunReturns ==
    /\ rev = "ihmOnly"
    /\ run.pc = "sun"
    /\ \E sun \in {DefaultSun, ApiSun} :
           LET r == [run EXCEPT !.sunData = sun]
           IN  run' = [r EXCEPT !.pc = "done", !.tides = SortByTime(r.tides),
                                !.result = IhmOnly_Result(r)]
    /\ UNCHANGED <<app, calc, rev, env, now, store, portCache, late, nQueries>>

\* formatTime: minutes of the day as "HH:MM"
formatTime(minutesTotal) ==
    LET minutesNormalized == ((minutesTotal % (24 * 60)) + 24 * 60) % (24 * 60)
    IN  Pad2(minutesNormalized \div 60, minutesNormalized % 60)

\* calculateApproximateTides of lines 243-269.  Heights are computed in
\* 1/18000 m, in which |lat| / 180 is the latitude in 1e-2 degree, and
\* rounded to centimetres (toFixed(2)).
IhmApprox_calculateApproximateTides(lat, lng) ==
    LET offsetMinutes == RoundDiv(Abs(lng) % 18000, 300)
        amplitude == 10800 + (IF Abs(lat) < 14400 THEN Abs(lat) ELSE 14400)
        baseHigh  == 54000 + amplitude
        baseLow   == IF baseHigh - 43200 > 3600 THEN baseHigh - 43200 ELSE 3600
        baseSchedule ==
            << [hour |-> 2,  minute |-> 0,  type |-> "HIGH", adjustment |-> 0],
               [hour |-> 8,  minute |-> 15, type |-> "LOW",  adjustment |-> 1800],
               [hour |-> 14, minute |-> 30, type |-> "HIGH", adjustment |-> -3600],
               [hour |-> 20, minute |-> 45, type |-> "LOW",  adjustment |-> 900] >>
        event(index) ==
            LET slot == baseSchedule[index + 1]
                baseMinutes == slot.hour * 60 + slot.minute + offsetMinutes + index * 5
                height == IF slot.type = "HIGH" THEN baseHigh + slot.adjustment
                          ELSE baseLow + slot.adjustment
            IN  Ev(formatTime(baseMinutes), RoundDiv(height, 180), slot.type)
    IN  <<event(0), event(1), event(2), event(3)>>

\* normalize(query) === normalize(port.puerto), for the names of the model
NameEquals(name, puerto) == name = puerto

\* normalize(port.puerto).includes(normalize(query)) or the other way round
NameIncludes(name, puerto) ==
    \/ name = puerto
    \/ name = "Vigo, Pontevedra, Galicia, España" /\ puerto = "Vigo"
    \/ name = "Gijón, Asturias, España" /\ puerto = "Gijón"

\* findPortByName: the index of the first port of equal name, else of the
\* first port whose name contains the query or is contained in it, else 0
findPortByName(query, ports) ==
    LET equal    == {i \in 1..Len(ports) : NameEquals(query, ports[i].puerto)}
        includes == {i \in 1..Len(ports) : NameIncludes(query, ports[i].puerto)}
        first(S) == CHOOSE i \in S : \A j \in S : i <= j
    IN  IF equal # {} THEN first(equal)
        ELSE IF includes # {} THEN first(includes)
        ELSE 0

\* normalize(entry.tipo).includes("plea") || normalize(entry.tipo).includes("alta")
IsPleamar(tipo) == tipo \in {"pleamar", "Pleamar"}

RECURSIVE IhmEntries(_)
\* lines 141-151: the entries with a time, a numeric height and a type
IhmEntries(marea) ==
    IF marea = <<>> THEN <<>>
    ELSE LET entry == Head(marea)
             rest  == IhmEntries(Tail(marea))
         IN  IF NumberOfAltura(entry.altura) = NaN THEN rest
             ELSE << Ev(entry.hora, NumberOfAltura(entry.altura),
                        IF IsPleamar(entry.tipo) THEN "HIGH" ELSE "LOW") >> \o rest

\* parseIhmTides with fetchIhmTides around it: the sorted events, or none
fetchIhmTides(response) ==
    IF response.outcome # "ok" \/ ~response.body.hasMarea THEN <<>>
    ELSE SortByTime(IhmEntries(response.body.marea))

\* the snapshot of lines 372-390
IhmApprox_Result(r) ==
    [requestedName |-> r.locationQuery, locationName |-> r.name,
     referenceLocationName |-> r.referenceLocationName,
     coordinates |-> [lat |-> r.lat, lng |-> r.lng],
     referenceCoordinates |-> r.referenceCoordinates,
     requestedCoordinates |-> r.requestedCoordinates,
     coefficient |-> Coefficient(r.tides),
     sun |-> DefaultSun,
     tides |-> SortByTime(r.tides),
     chartData |-> ChartPoints(r.tides),
     dataSource |-> r.dataSource,
     dataDisclaimer |-> r.dataDisclaimer,
     isApproximate |-> r.isApproximate,
     sourceError |-> r.sourceError]

\* the snapshot of the catch block, lines 391-407: the mocked day
IhmApprox_MockResult(r) ==
    [requestedName |-> r.locationQuery,
     locationName |-> "${query} (Simulado)",
     referenceLocationName |-> "${query} (simulado)",
     coordinates |-> [lat |-> 4354, lng |-> -672],
     referenceCoordinates |-> NoCoordinates,
     requestedCoordinates |-> [lat |-> 4354, lng |-> -672],
     coefficient |-> 82,
     sun |-> [sunrise |-> "08:54", sunset |-> "19:28"],
     tides |-> MOCK_TIDES,
     chartData |-> ChartPoints(MOCK_TIDES),
     dataSource |-> "Simulación local",
     dataDisclaimer |-> "Se muestran datos simulados porque no fue posible contactar con la API oficial del IHM.",
     isApproximate |-> TRUE,
     sourceError |-> "Error en servicios de mareas"]

\* lines 293-332: without ports the throw of line 294 is caught at line 391;
\* else the port of the name, or the nearest one, is asked for its tides
IhmApprox_AfterLoadPorts(r, ports) ==
    IF ports = <<>>
    THEN [r EXCEPT !.pc = "done", !.tides = MOCK_TIDES, !.tidesFrom = "mock",
                   !.result = IhmApprox_MockResult(r)]
    ELSE LET matchedPort == findPortByName(r.name, ports)
             port == IF matchedPort # 0 THEN ports[matchedPort]
                     ELSE findNearestPort(r.lat, r.lng, ports)
         IN  [r EXCEPT !.pc = "ihm", !.port = port, !.matched = matchedPort # 0,
                       !.distance = [known |-> TRUE,
                                     value |-> getHaversineDistance(r.lat, r.lng,
                                                                    port.lat, port.lon)],
                       !.referenceLocationName = port.puerto,
                       !.referenceCoordinates = [lat |-> port.lat, lng |-> port.lon],
                       !.providerCalls = Append(@, "IHM"),
                       !.networkCalls = Append(@, "IHM")]

\* a loadPorts that downloads the catalog for every call
IhmApprox_AfterGeocode_AlwaysLoads(r, geoData) ==
    LET geo == IF geoData # NoGeo THEN geoData
               ELSE [lat |-> 4224, lng |-> -872, name |-> "Vigo"]
    IN  [r EXCEPT !.name = geo.name, !.lat = geo.lat, !.lng = geo.lng,
                  !.hint = geo.name, !.geocoded = geoData # NoGeo,
                  !.requestedCoordinates = [lat |-> geo.lat, lng |-> geo.lng],
                  !.pc = "catalog", !.networkCalls = Append(@, "catalog")]

\* lines 281-292; loadPorts (lines 74-96) returns the memoized list, or
\* downloads it
IhmApprox_AfterGeocode(r, geoData) ==
    LET geo == IF geoData # NoGeo THEN geoData
               ELSE [lat |-> 4224, lng |-> -872, name |-> "Vigo"]
        r1  == [r EXCEPT !.name = geo.name, !.lat = geo.lat, !.lng = geo.lng,
                         !.hint = geo.name, !.geocoded = geoData # NoGeo,
                         !.requestedCoordinates = [lat |-> geo.lat, lng |-> geo.lng]]
    IN  IF portCache.loaded THEN IhmApprox_AfterLoadPorts(r1, portCache.ports)
        ELSE [r1 EXCEPT !.pc = "catalog", !.networkCalls = Append(@, "catalog")]

\* lines 333-390; the answer names the port that was asked for, with its
\* coordinates
IhmApprox_AfterTides(r, ihmTides) ==
    LET r1 == IF ihmTides # <<>>
              THEN [r EXCEPT !.tides = ihmTides, !.tidesFrom = "IHM",
                             !.name = r.port.puerto,
                             !.dataSource = "IHM (API ideihm)",
                             !.dataDisclaimer =
                                 IF ~r.matched
                                 THEN "Usamos el puerto más cercano (${port.puerto}, a ${distanceKm} km) porque la ubicación solicitada no tiene estación IHM."
                                 ELSE @,
                             !.lat = r.port.lat, !.lng = r.port.lon]
              ELSE [r EXCEPT !.sourceError = "IHM no devolvió datos"]
        r2 == IF r1.tides = <<>>
              THEN [r1 EXCEPT !.tides = IhmApprox_calculateApproximateTides(r1.lat, r1.lng),
                              !.tidesFrom = "approximation",
                              !.isApproximate = TRUE,
                              !.dataSource = IF @ = "" THEN "Estimación local aproximada" ELSE @,
                              !.dataDisclaimer =
                                  IF @ = Undefined
                                  THEN "Mostramos mareas aproximadas porque no obtuvimos respuesta de la API oficial del IHM en este momento."
                                  ELSE @]
              ELSE r1
    IN  [r2 EXCEPT !.pc = "done", !.tides = SortByTime(r2.tides),
                   !.result = IhmApprox_Result(r2)]

\* const query = locationQuery?.trim() || DEFAULT_COORDS.name
IhmApprox_Call(query) ==
    /\ rev = "ihmApprox"
    /\ Idle
    /\ nQueries < MaxQueries
    /\ nQueries' = nQueries + 1
    /\ run' = [run EXCEPT !.pc = "geocoding",
                          !.locationQuery = IF query = "" THEN "Vigo" ELSE query]
    /\ UNCHANGED <<app, calc, rev, env, now, store, portCache, late>>

IhmApprox_GeocodeReturns ==
    /\ rev = "ihmApprox"
    /\ run.pc = "geocoding"
    /\ \E response \in {"ok", "empty", "error"} :
           run' = IhmApprox_AfterGeocode(run, Ihm_geocodeLocation(run.locationQuery, response))
    /\ UNCHANGED <<app, calc, rev, env, now, store, portCache, late, nQueries>>

\* loadPorts of lines 74-96 gets its answer
IhmApprox_LoadPortsReturns ==
    /\ rev = "ihmApprox"
    /\ run.pc = "catalog"
    /\ \E response \in Responses({IhmPorts, <<>>}, {"error"}) :
           /\ portCache' = IF response.outcome = "ok" THEN [loaded |-> TRUE, ports |-> response.body]
                           ELSE portCache
           /\ run' = IhmApprox_AfterLoadPorts(run, response.body)
    /\ UNCHANGED <<app, calc, rev, env, now, store, late, nQueries>>

\* fetchIhmTides returns
IhmApprox_TidesReturn ==
    /\ rev = "ihmApprox"
    /\ run.pc = "ihm"
    /\ \E response \in Responses(IhmPayloads, {"error"}) :
           run' = IhmApprox_AfterTides(run, fetchIhmTides(response))
    /\ UNCHANGED <<app, calc, rev, env, now, store, portCache, late, nQueries>>

-----------------------------------------------------------------------------
(* The AEMET revision with a fallback distance (src/unnamed/part_005, lines *)
(* 689-1184): AEMET is its only provider, and a station is used only within *)
(* 250 km of the place.  Its AEMET key is taken as configured.              *)

MaxFallbackKm == 250

\* a fallback distance that rejects no station
WithinFallbackDistance_Always(lat, lng, port) ==
    getHaversineDistance(lat, lng, port.lat, port.lng) >= 0

\* distanceKm <= 250, with the distance of getHaversineDistance: 111 km to
\* the degree
WithinFallbackDistance(lat, lng, port) ==
    LET limit == (100 * MaxFallbackKm) \div 111
    IN  getHaversineDistance(lat, lng, port.lat, port.lng) <= limit * limit

\* a resolver without the limit of 250 km
Aemet250_findNearestSpanishPort_AnyDistance(lat, lng, locationName) ==
    LET port == findNearestSpanishPort(lat, lng, locationName)
    IN  [found |-> TRUE, hasDistance |-> TRUE, name |-> port.name,
         lat |-> port.lat, lng |-> port.lng, aemetId |-> port.aemetId,
         distanceKm |-> getHaversineDistance(lat, lng, port.lat, port.lng),
         direct |-> FALSE]

\* findNearestSpanishPort of lines 887-928: the port of the exact key unless
\* another is strictly nearer; returned with its distance when within 250 km,
\* else the port of the exact key without a distance, else null
Aemet250_findNearestSpanishPort(lat, lng, locationName) ==
    LET M == SPANISH_PORT_MAPPING
        n == Len(M)
        d(i) == getHaversineDistance(lat, lng, M[i].lat, M[i].lng)
        direct  == {i \in 1..n : M[i].key = ExactKey(locationName)}
        first   == CHOOSE i \in 1..n : /\ \A j \in 1..n : d(i) <= d(j)
                                       /\ \A j \in 1..(i - 1) : d(j) > d(i)
        nearest == IF \E i \in direct : \A j \in 1..n : d(i) <= d(j)
                   THEN CHOOSE i \in direct : TRUE ELSE first
        port(i, known) == [found |-> TRUE, hasDistance |-> known, name |-> M[i].name,
                           lat |-> M[i].lat, lng |-> M[i].lng, aemetId |-> M[i].aemetId,
                           distanceKm |-> IF known THEN d(i) ELSE 0,
                           direct |-> i \in direct]
    IN  IF WithinFallbackDistance(lat, lng, M[nearest]) THEN port(nearest, TRUE)
        ELSE IF direct # {} THEN port(CHOOSE i \in direct : TRUE, FALSE)
        ELSE [found |-> FALSE, hasDistance |-> FALSE, name |-> "", lat |-> 0, lng |-> 0,
              aemetId |-> FALSE, distanceKm |-> 0, direct |-> FALSE]

\* the snapshot of lines 1150-1168
Aemet250_Result(r) == [IhmApprox_Result(r) EXCEPT !.sun = r.sunData]

\* lines 1129-1168: approximate at the coordinates of the call when there
\* are no events, then build the snapshot
Aemet250_Finish(r) ==
    LET r1 == IF r.tides = <<>>
              THEN [r EXCEPT !.tides = IhmApprox_calculateApproximateTides(r.lat, r.lng),
                             !.tidesFrom = "approximation",
                             !.isApproximate = TRUE,
                             !.dataSource = IF @ = "" THEN "Estimación local aproximada" ELSE @,
                             !.dataDisclaimer =
                                 IF @ = Undefined
                                 THEN "Mostramos mareas aproximadas porque no recibimos respuesta de las fuentes oficiales en este entorno."
                                 ELSE @,
                             !.sourceError =
                                 IF @ = Undefined THEN "Fuentes oficiales sin respuesta" ELSE @]
              ELSE r
    IN  [r1 EXCEPT !.pc = "done", !.tides = SortByTime(r1.tides),
                   !.result = Aemet250_Result(r1)]

\* lines 1116-1126: events of AEMET (or of its cache) bring the station's
\* name and coordinates
Aemet250_AfterAemet(r, tides, from) ==
    Aemet250_Finish(
        IF tides # <<>>
        THEN [r EXCEPT !.tides = tides, !.tidesFrom = from,
                       !.lastAttempt = IF from = "cache" THEN @ ELSE Attempt("AEMET", "ok", tides),
                       !.dataSource = "AEMET (predicción marítima)",
                       !.name = r.port.name, !.lat = r.port.lat, !.lng = r.port.lng]
        ELSE [r EXCEPT !.lastAttempt = IF from \in {"cache", "no id"} THEN @
                                       ELSE Attempt("AEMET", from, <<>>)])

\* lines 1083-1115 with the start of fetchAemetTideData (lines 987-994): the
\* station is used only with a distance of at most 250 km; a port without
\* AEMET id gives null before the cache is read
Aemet250_AfterSun(r, sun) ==
    LET port == Aemet250_findNearestSpanishPort(r.lat, r.lng, r.name)
        r1   == [r EXCEPT !.sunData = sun]
        r2   == [r1 EXCEPT !.port = port, !.aemetId = port.aemetId,
                           !.matched = port.direct,
                           !.distance = [known |-> TRUE, value |-> port.distanceKm],
                           !.referenceLocationName = port.name,
                           !.referenceCoordinates = [lat |-> port.lat, lng |-> port.lng],
                           !.atFetch = [entry |-> store[CacheKey(port)], at |-> now],
                           !.providerCalls = Append(@, "AEMET")]
        cached == loadCachedTides(CacheKey(port))
    IN  IF ~(port.found /\ port.hasDistance) THEN Aemet250_Finish(r1)
        ELSE IF ~port.aemetId THEN Aemet250_AfterAemet(r2, <<>>, "no id")
        ELSE IF cached # <<>> THEN Aemet250_AfterAemet(r2, cached, "cache")
        ELSE [r2 EXCEPT !.pc = "aemet", !.networkCalls = Append(@, "AEMET")]

\* const query = locationQuery?.trim() || DEFAULT_COORDS.name
Aemet250_Call(query) ==
    /\ rev = "aemet250"
    /\ Idle
    /\ nQueries < MaxQueries
    /\ nQueries' = nQueries + 1
    /\ run' = [run EXCEPT !.pc = "geocoding",
                          !.locationQuery = IF query = "" THEN "Vigo" ELSE query]
    /\ UNCHANGED <<app, calc, rev, env, now, store, portCache, late>>

\* geocodeLocation returns; without a result the place is DEFAULT_COORDS
Aemet250_GeocodeReturns ==
    /\ rev = "aemet250"
    /\ run.pc = "geocoding"
    /\ \E response \in {"ok", "empty", "error"} :
           LET geoData == Ihm_geocodeLocation(run.locationQuery, response)
               geo == IF geoData # NoGeo THEN geoData
                      ELSE [lat |-> 4224, lng |-> -872, name |-> "Vigo"]
           IN  run' = [run EXCEPT !.pc = "sun", !.name = geo.name, !.lat = geo.lat,
                                  !.hint = geo.name,
                                  !.lng = geo.lng, !.geocoded = geoData # NoGeo,
                                  !.requestedCoordinates = [lat |-> geo.lat, lng |-> geo.lng]]
    /\ UNCHANGED <<app, calc, rev, env, now, store, portCache, late, nQueries>>

\* the race of getSunTimes with its 5 s timer is decided
Aemet250_SunReturns ==
    /\ rev = "aemet250"
    /\ run.pc = "sun"
    /\ \E sun \in {DefaultSun, ApiSun} : run' = Aemet250_AfterSun(run, sun)
    /\ UNCHANGED <<app, calc, rev, env, now, store, portCache, late, nQueries>>

\* fetchAemetTideData answers and saves its events, or the 10 s timer wins
\* the race and the request stays in flight
Aemet250_AemetReturns ==
    /\ rev = "aemet250"
    /\ run.pc = "aemet"
    /\ \E response \in Responses(AemetPayloads, {"error", "timeout"}) :
           LET tides == normalizeAemetTides(response.body)
           IN  /\ store' = IF tides # <<>>
                           THEN saveCachedTides(CacheKey(run.port), tides) ELSE store
               /\ late' = IF response.outcome = "timeout"
                          THEN late \cup {CacheKey(run.port)} ELSE late
               /\ run' = Aemet250_AfterAemet(run, tides,
                             IF response.outcome = "ok" THEN "AEMET" ELSE response.outcome)
    /\ UNCHANGED <<app, calc, rev, env, now, portCache, nQueries>>

Next ==
    \/ \E query \in Queries : Call(query)
    \/ GeocodeReturns
    \/ SunReturns
    \/ AemetReturns
    \/ AemetTimesOut
    \/ LateAemetReturns
    \/ TablademareasReturns
    \/ WorldTidesReturns
    \/ \E query \in Queries : IhmOnly_Call(query)
    \/ IhmOnly_LoadPortsReturns
    \/ IhmOnly_GeocodeReturns
    \/ IhmOnly_TidesReturn
    \/ IhmOnly_SunReturns
    \/ \E query \in Queries : IhmApprox_Call(query)
    \/ IhmApprox_GeocodeReturns
    \/ IhmApprox_LoadPortsReturns
    \/ IhmApprox_TidesReturn
    \/ \E query \in Queries : Aemet250_Call(query)
    \/ Aemet250_GeocodeReturns
    \/ Aemet250_SunReturns
    \/ Aemet250_AemetReturns
    \/ Return
    \/ Tick

Spec == Init /\ [][Next]_vars

-----------------------------------------------------------------------------
(* The claims of the specification about fetchTideData *)

\* the branches that hand the orchestrator events of a provider
ProviderBranches == {"AEMET", "cache", "tablademareas", "WorldTides", "IHM"}

\* C1: fetchTideData never throws or rejects: whatever the geocoder, the sun
\* service, the catalog and the providers do, the call resolves with a
\* snapshot.
C1_NeverRejects == run.pc # "rejected"

\* C2: when the geocoder gives no place and no provider gives events, the
\* call still returns a snapshot with isApproximate = true and at least 2
\* events (the revisions that have a fallback: the current service and the
\* IHM revision with approximation).
C2_TotalFailure ==
    (/\ rev # "ihmOnly"
     /\ Settled
     /\ ~run.geocoded
     /\ run.tidesFrom \notin ProviderBranches)
    => /\ run.pc = "done"
       /\ run.result.isApproximate
       /\ Len(run.result.tides) >= 2

\* C2's case: no place, and AEMET, tablademareas and WorldTides were asked in
\* vain
C2_Witness ==
    /\ rev = "current"
    /\ run.pc = "done"
    /\ ~run.geocoded
    /\ run.networkCalls = <<"AEMET", "tablademareas", "WorldTides">>
    /\ run.tidesFrom = "approximation"
    /\ run.result.isApproximate
    /\ Len(run.result.tides) = 4

\* the order in which the current service tries its providers
CodePriority == <<"AEMET", "tablademareas", "WorldTides">>

\* the order the specification gives: hydrographic, meteorological, commercial
SpecPriority == <<"tablademareas", "AEMET", "WorldTides">>

Rank(provider, priority) == CHOOSE i \in 1..Len(priority) : priority[i] = provider

\* no provider of the sequence was called before one of higher priority
InPriorityOrder(calls, priority) ==
    \A i, j \in 1..Len(calls) : i < j => Rank(calls[i], priority) < Rank(calls[j], priority)

\* C3, as the code has it: within one query the providers are tried in the
\* fixed order AEMET, tablademareas (IHM data), WorldTides; none is called
\* before one that precedes it in this order.
C3_CodeOrder == rev = "current" => InPriorityOrder(run.providerCalls, CodePriority)

\* C3's case: all three providers were asked
C3_Witness ==
    /\ rev = "current"
    /\ run.providerCalls = CodePriority
    /\ run.networkCalls = CodePriority

\* C3 as stated: the order is tablademareas (the hydrographic source), then
\* AEMET, then WorldTides.
C3_SpecOrder == rev = "current" => InPriorityOrder(run.providerCalls, SpecPriority)

\* the last answer of a provider did not end the chain
AttemptFailed == run.tidesFrom # run.lastAttempt.provider

\* what follows the answer that ended the chain: no later provider, and the
\* snapshot's events are that provider's
ChainStopped ==
    /\ run.pc = "done"
    /\ run.providerCalls[Len(run.providerCalls)] = run.lastAttempt.provider
    /\ run.result.tides = SortByTime(run.lastAttempt.parsed)

\* C4, as the code has it: a provider counts as failed iff it errors, times
\* out, yields no event or, for tablademareas, yields fewer than 2 events; the
\* first provider that does not fail ends the chain, and the snapshot's
\* events are exactly its events.
C4_FirstSuccessStops ==
    (rev = "current" /\ run.lastAttempt # NoAttempt)
    => LET a == run.lastAttempt
       IN  /\ AttemptFailed <=> \/ a.outcome \in {"error", "timeout"}
                                \/ Len(a.parsed) = 0
                                \/ a.provider = "tablademareas" /\ Len(a.parsed) < 2
           /\ ~AttemptFailed => ChainStopped

\* C4's case: tablademareas answered, one event was parsed, and the chain
\* went on to WorldTides
C4_Witness ==
    /\ rev = "current"
    /\ run.pc = "worldtides"
    /\ run.lastAttempt.provider = "tablademareas"
    /\ run.lastAttempt.outcome = "ok"
    /\ Len(run.lastAttempt.parsed) = 1

\* C4 as stated: a provider counts as failed iff it errors, times out or
\* returns zero parsed events.
C4_ZeroEventsOnly ==
    (rev = "current" /\ run.lastAttempt # NoAttempt)
    => LET a == run.lastAttempt
       IN  /\ AttemptFailed <=> \/ a.outcome \in {"error", "timeout"}
                                \/ Len(a.parsed) = 0
           /\ ~AttemptFailed => ChainStopped

\* the providers a call can reach: in a browser that is not on localhost
\* AEMET and tablademareas are left out
Chain == IF allowDirectAemet THEN CodePriority ELSE <<"WorldTides">>

\* C5, as the code has it: the adapters called are a prefix of the chain of
\* the host, in its order and each once; the prefix ends with the provider
\* whose events are returned (AEMET also when its cache answered), and it is
\* the whole chain when the events are approximated.
C5_ChainForHost ==
    (rev = "current" /\ run.pc = "done")
    => LET k == Len(run.providerCalls)
       IN  /\ k <= Len(Chain)
           /\ run.providerCalls = SubSeq(Chain, 1, k)
           /\ k >= 1
           /\ Chain[k] = CASE run.tidesFrom = "cache" -> "AEMET"
                           [] run.tidesFrom \in {"approximation", "mock"} -> "WorldTides"
                           [] OTHER -> run.tidesFrom

\* C5's case: AEMET failed, tablademareas failed, WorldTides succeeded, and
\* exactly these three were called
C5_Witness ==
    /\ rev = "current"
    /\ run.pc = "done"
    /\ run.tidesFrom = "WorldTides"
    /\ run.networkCalls = CodePriority
    /\ run.providerCalls = CodePriority

\* C5 as stated, the priority order read as the code's: the snapshot's events
\* come from the k-th provider only after providers 1..k were called, none
\* skipped.
C5_NoneSkipped ==
    (rev = "current" /\ run.pc = "done" /\ run.tidesFrom \in {"AEMET", "tablademareas", "WorldTides"})
    => run.providerCalls = SubSeq(CodePriority, 1, Rank(run.tidesFrom, CodePriority))

\* the station of the call is resolved and its cache entry was looked at
StationResolved == run.pc \notin {"idle", "geocoding", "sun"}

\* the age of the station's entry when the query reached the providers
AgeAtFetch == run.atFetch.at - run.atFetch.entry.savedAt

\* C6: if the cache holds an unexpired entry for the resolved station when
\* the query reaches the providers, no provider request is sent in that
\* query, and the cached events are returned as a successful fetch: the call
\* is done, its events are the entry's, and the snapshot is not approximate.
C6_CacheHit ==
    (/\ rev = "current"
     /\ run.atFetch.entry # NoEntry
     /\ AgeAtFetch <= TIDE_CACHE_TTL)
    => /\ run.pc = "done"
       /\ run.networkCalls = <<>>
       /\ run.tidesFrom = "cache"
       /\ run.result.tides = SortByTime(run.atFetch.entry.tides)
       /\ ~run.result.isApproximate

\* C6's case: an entry saved an hour ago answers the query
C6_Witness ==
    /\ rev = "current"
    /\ run.atFetch.entry # NoEntry
    /\ AgeAtFetch = 1
    /\ run.pc = "done"
    /\ run.tidesFrom = "cache"
    /\ run.networkCalls = <<>>

\* C7: an entry saved at t0 is served by a lookup at t exactly when t - t0 is
\* at most the TTL of 6 hours; an expired entry is never returned as data.
C7_ServedWithinTTL ==
    (/\ rev = "current"
     /\ StationResolved
     /\ run.atFetch.entry # NoEntry)
    => /\ run.tidesFrom = "cache" <=> AgeAtFetch <= TIDE_CACHE_TTL
       /\ run.tidesFrom = "cache" => run.tides = SortByTime(run.atFetch.entry.tides)

\* C7's case: an entry saved 7 hours ago is passed over and AEMET is asked
C7_Witness ==
    /\ rev = "current"
    /\ run.atFetch.entry # NoEntry
    /\ AgeAtFetch = TIDE_CACHE_TTL + 1
    /\ run.pc = "aemet"
    /\ run.tidesFrom = "none"

\* C8: a query that finds its station's entry expired asks the provider;
\* when the provider answers with events, the entry is overwritten with
\* them and with the time of the answer; and a query for that station that
\* follows within the TTL is served from an entry at least that fresh.
C8_Refresh ==
    /\ []((/\ rev = "current"
           /\ StationResolved
           /\ run.atFetch.entry # NoEntry
           /\ AgeAtFetch > TIDE_CACHE_TTL)
          => run.networkCalls # <<>> /\ run.networkCalls[1] = "AEMET")
    /\ [][(/\ rev = "current"
           /\ run.pc = "aemet"
           /\ run.atFetch.entry # NoEntry
           /\ run'.tidesFrom = "AEMET")
          => store'[CacheKey(run)] = [tides |-> run'.lastAttempt.parsed, savedAt |-> now]]_vars
    /\ []((/\ rev = "current"
           /\ StationResolved
           /\ run.afterRefresh.refreshed
           /\ CacheKey(run) = run.afterRefresh.key
           /\ run.atFetch.at - run.afterRefresh.at <= TIDE_CACHE_TTL)
          => /\ run.tidesFrom = "cache"
             /\ run.atFetch.entry.savedAt >= run.afterRefresh.at)

\* C8, where it holds: the refresh happens for a station resolved by name
\* with its AEMET id; a station resolved by proximity has lost the id
\* (findNearestSpanishPort) and its expired entry is never replaced
C8_RefreshWithAemetId ==
    /\ []((/\ rev = "current"
           /\ StationResolved
           /\ run.aemetId
           /\ run.atFetch.entry # NoEntry
           /\ AgeAtFetch > TIDE_CACHE_TTL)
          => run.networkCalls # <<>> /\ run.networkCalls[1] = "AEMET")
    /\ [][(/\ rev = "current"
           /\ run.pc = "aemet"
           /\ run.atFetch.entry # NoEntry
           /\ AgeAtFetch > TIDE_CACHE_TTL
           /\ run'.tidesFrom = "AEMET")
          => store'[CacheKey(run)] = [tides |-> run'.lastAttempt.parsed, savedAt |-> now]]_vars

\* C8's case: the call before this one replaced an expired entry, and this
\* call is served from the entry it wrote
C8_Witness ==
    /\ rev = "current"
    /\ run.afterRefresh.refreshed
    /\ run.pc = "done"
    /\ run.tidesFrom = "cache"
    /\ run.atFetch.entry.savedAt = run.afterRefresh.at
    /\ run.atFetch.at > run.afterRefresh.at

\* the snapshot carries isApproximate = true
IsApproximate(result) == "isApproximate" \in DOMAIN result /\ result.isApproximate

\* C9: a returned snapshot has isApproximate = true exactly when its events
\* come from the local approximation or from the mocked day; the events are
\* approximated only after every provider the call can reach was called and
\* failed; and with isApproximate = true the disclaimer is a non-empty
\* string.
C9_ApproximateFlag ==
    run.pc = "done"
    => /\ IsApproximate(run.result) <=> run.tidesFrom \in {"approximation", "mock"}
       /\ IsApproximate(run.result) => run.result.dataDisclaimer \notin {Undefined, ""}
       /\ run.tidesFrom = "mock" => run.result.tides = MOCK_TIDES
       /\ run.tidesFrom = "approximation"
          => /\ run.providerCalls = CASE rev = "current" -> Chain
                                      [] rev = "aemet250" ->
                                           IF run.port = NoPort THEN <<>> ELSE <<"AEMET">>
                                      [] OTHER -> <<"IHM">>
             /\ rev = "current" /\ run.lastAttempt # NoAttempt => AttemptFailed

\* C9's case: in a browser in production WorldTides, the only provider within
\* reach, failed and the events are approximated
C9_Witness ==
    /\ rev = "current"
    /\ env.host = "production"
    /\ run.pc = "done"
    /\ run.lastAttempt.provider = "WorldTides"
    /\ run.tidesFrom = "approximation"
    /\ run.result.isApproximate
    /\ run.result.dataDisclaimer # Undefined

\* C10: the coefficient of every returned snapshot with events is in
\* [20, 120].
C10_CoefficientInRange ==
    (run.pc = "done" /\ run.result.tides # <<>>) => run.result.coefficient \in 20..120

\* C10, where it holds: in the current service and in the IHM revision with
\* approximation, whose adapters drop the entries without a numeric height
C10_WithNumericHeights ==
    (rev # "ihmOnly" /\ run.pc = "done") => run.result.coefficient \in 20..120

\* C11: in every returned snapshot, whichever branch produced the events,
\* coefficient = clamp(round((max(height) - min(height)) / 4 * 100), 20, 120)
\* computed over the snapshot's own event list.
C11_CoefficientOfEvents ==
    run.pc = "done" => run.result.coefficient = Coefficient(run.result.tides)

\* C11, where it holds: every snapshot but the mocked day, which carries the
\* coefficient written in MOCK_TIDE_DATA
C11_ExceptMockedDay ==
    (run.pc = "done" /\ run.tidesFrom # "mock")
    => run.result.coefficient = Coefficient(run.result.tides)

\* DEFAULT_COORDS, the location of Vigo
DefaultCoordinates == [lat |-> 4224, lng |-> -872]

\* the coordinates are a latitude and a longitude
InRange(c) == c.lat >= -9000 /\ c.lat <= 9000 /\ c.lng >= -18000 /\ c.lng <= 18000

\* C12: after every failure of the geocoder (network error, no result, or a
\* "lat, lon" query out of range) the orchestrator goes on with the default
\* location of Vigo as its coordinates; coordinates out of range are never
\* the ones the station is resolved from.
C12_DefaultAfterGeocodeFailure ==
    (rev = "current" /\ run.pc \notin {"idle", "geocoding"})
    => /\ ~run.geocoded => run.requestedCoordinates = DefaultCoordinates
       /\ InRange(run.requestedCoordinates)

\* C12, where it holds: the queries that are not written as coordinates
C12_ForNames ==
    (rev = "current" /\ run.pc \notin {"idle", "geocoding"} /\ ~CoordMatch(run.locationQuery))
    => /\ ~run.geocoded => run.requestedCoordinates = DefaultCoordinates
       /\ InRange(run.requestedCoordinates)

\* no station of the table lies within the fallback distance of the place
\* the call asked for
NoStationWithinTolerance ==
    \A i \in 1..Len(SPANISH_PORT_MAPPING) :
        ~WithinFallbackDistance(run.requestedCoordinates.lat, run.requestedCoordinates.lng,
                                SPANISH_PORT_MAPPING[i])

\* the call went from the resolution of the station straight to the
\* approximation, which it computed from the coordinates of the place
ApproximatedAtPlace ==
    /\ run.pc = "done"
    /\ run.providerCalls = <<>>
    /\ run.networkCalls = <<>>
    /\ run.tidesFrom = "approximation"
    /\ run.result.isApproximate
    /\ run.result.coordinates = run.requestedCoordinates

\* C13: when the resolution of the station finds no usable station (no name
\* match and no station within the tolerance), the orchestrator goes directly
\* to the approximation: no provider is called in that query and the events are
\* approximated from the geocoded coordinates.  The tolerance is the fallback
\* distance of the revision that has one; the current service has none, so
\* every station of its table is usable and it always resolves one.
C13_WithFallbackDistance ==
    /\ (/\ rev = "aemet250"
        /\ run.pc \notin {"idle", "geocoding", "sun"}
        /\ NoStationWithinTolerance)
       => /\ ApproximatedAtPlace
          /\ run.result.tides =
                 SortByTime(IhmApprox_calculateApproximateTides(run.requestedCoordinates.lat,
                                                                run.requestedCoordinates.lng))
    /\ (rev = "current" /\ run.pc \in {"aemet", "tablademareas", "worldtides"})
       => run.referenceLocationName \in
              {SPANISH_PORT_MAPPING[i].name : i \in 1..Len(SPANISH_PORT_MAPPING)}

\* C13's case: Paris has no station within 250 km and its tides are
\* approximated without a provider
C13_Witness ==
    /\ rev = "aemet250"
    /\ run.pc = "done"
    /\ run.geocoded
    /\ run.locationQuery = "Paris"
    /\ NoStationWithinTolerance
    /\ run.providerCalls = <<>>
    /\ run.tidesFrom = "approximation"

\* the events are in ascending order of the clock time they denote
AscendingByClock(tides) ==
    \A i, j \in 1..Len(tides) :
        i < j => timeToDecimal(tides[i].time) <= timeToDecimal(tides[j].time)

\* every hour of the list is written with two digits
PaddedHours(tides) == \A i \in 1..Len(tides) : Len(tides[i].time.hh) = 2

\* C14: the event list of every returned snapshot is sorted in ascending
\* order of the clock time of its events, for every time string an adapter
\* can emit, hours written with one digit included.
C14_SortedByClockTime ==
    run.pc = "done" => AscendingByClock(run.result.tides)

\* C14, where it holds: lists whose hours are all written with two digits
C14_SortedWhenPadded ==
    (run.pc = "done" /\ PaddedHours(run.result.tides))
    => AscendingByClock(run.result.tides)

\* no two events of the list have the same time and the same kind
NoDuplicates(tides) ==
    \A i, j \in 1..Len(tides) :
        (i # j) => ~(tides[i].time = tides[j].time /\ tides[i].type = tides[j].type)

\* C15: the event list of every returned snapshot has no two events with the
\* same time and the same kind, whichever provider (AEMET, tablademareas,
\* WorldTides over today and tomorrow, IHM) or fallback produced it.
C15_NoDuplicateEvents ==
    run.pc = "done" => NoDuplicates(run.result.tides)

\* C15, where it holds: the lists that do not come from WorldTides
C15_ExceptWorldTides ==
    (run.pc = "done" /\ run.tidesFrom # "WorldTides")
    => NoDuplicates(run.result.tides)

\* every height of the list is a number that is not negative
HeightsNotNegative(tides) == \A i \in 1..Len(tides) : tides[i].height >= 0

\* C16: every event of every returned snapshot has a height >= 0, whichever
\* provider or fallback produced it.
C16_HeightsNotNegative ==
    run.pc = "done" => HeightsNotNegative(run.result.tides)

\* C16, where it holds: the events of the local approximations, of
\* tablademareas and of the mocked day
C16_FallbackAndScrape ==
    (run.pc = "done" /\ run.tidesFrom \in {"approximation", "tablademareas", "mock"})
    => \A i \in 1..Len(run.result.tides) : run.result.tides[i].height > 0

-----------------------------------------------------------------------------
(* tideMath: the curve synthesizer.                                        *)
(* Decimal hours are integers in tenths of a minute (0.25 h = 150,         *)
(* 0.02 h = 12, 6.21 h = 3726), heights in centimetres.                    *)

\* timeToDecimal(time), in tenths of a minute
DecimalOf(time) == 10 * timeToDecimal(time)

\* the 6.21 h between an event and the virtual event before or after it
VirtualOffset == 3726

\* the 2.5 m between an event and its virtual neighbour
VirtualAmplitude == 250

\* the 0.25 h between two points of the curve
CurveStep == 150

\* the 24 h the curve ends at
CurveEnd == 14400

\* the 0.02 h calculateCurrentHeight looks ahead
LookAhead == 12

RECURSIVE InsertByDecimal(_, _)
InsertByDecimal(sorted, e) ==
    IF sorted = <<>> THEN <<e>>
    ELSE IF timeToDecimal(sorted[Len(sorted)].time) <= timeToDecimal(e.time)
         THEN Append(sorted, e)
         ELSE Append(InsertByDecimal(SubSeq(sorted, 1, Len(sorted) - 1), e),
                     sorted[Len(sorted)])

RECURSIVE SortByDecimal(_)
\* [...tides].sort((a, b) => timeToDecimal(a.time) - timeToDecimal(b.time))
SortByDecimal(tides) ==
    IF tides = <<>> THEN <<>>
    ELSE InsertByDecimal(SortByDecimal(SubSeq(tides, 1, Len(tides) - 1)), tides[Len(tides)])

\* 1000 * Math.cos(Math.PI * n / d) for d > 0: the angle is reduced to
\* [0, pi] and the cosine taken by the rational approximation
\* (1 - 4x^2) / (1 + x^2) of cos(pi x) on [0, 1/2], which is exact at 0, at
\* pi/2 and at pi and within 0.002 of the cosine elsewhere
CosPermille(n, d) ==
    LET a == Abs(n) % (2 * d)
        b == IF a > d THEN 2 * d - a ELSE a
        F == (1000 * b) \div d
        G == IF F <= 500 THEN F ELSE 1000 - F
        c == (1000 * (1000000 - 4 * G * G)) \div (1000000 + G * G)
    IN  IF F <= 500 THEN c ELSE 0 - c

\* the height of the virtual event next to a boundary event
VirtualHeight(event) ==
    IF event.type = "HIGH"
    THEN (IF event.height - VirtualAmplitude > 0 THEN event.height - VirtualAmplitude ELSE 0)
    ELSE event.height + VirtualAmplitude

\* bounding events without the two branches for queries outside the events:
\* always a pair of the day, the first one when no pair holds the query
Segment_PairsOnly(timeDecimal, sortedTides) ==
    LET n     == Len(sortedTides)
        found == {i \in 1..(n - 1) :
                     /\ timeDecimal >= DecimalOf(sortedTides[i].time)
                     /\ timeDecimal <= DecimalOf(sortedTides[i + 1].time)}
        idx   == IF found = {} THEN 1 ELSE CHOOSE i \in found : \A j \in found : i <= j
        end   == IF n = 1 THEN 1 ELSE idx + 1
    IN  [t1 |-> DecimalOf(sortedTides[idx].time), h1 |-> sortedTides[idx].height,
         t2 |-> DecimalOf(sortedTides[end].time), h2 |-> sortedTides[end].height]

\* the bounding events t1, h1, t2, h2 getTideHeightAtTime interpolates
\* between; sortedTides is not empty
Segment(timeDecimal, sortedTides) ==
    LET n     == Len(sortedTides)
        first == sortedTides[1]
        last  == sortedTides[n]
        found == {i \in 1..(n - 1) :
                     /\ timeDecimal >= DecimalOf(sortedTides[i].time)
                     /\ timeDecimal <= DecimalOf(sortedTides[i + 1].time)}
        idx   == IF found = {} THEN 1 ELSE CHOOSE i \in found : \A j \in found : i <= j
    IN  IF timeDecimal <= DecimalOf(first.time)
        THEN [t1 |-> DecimalOf(first.time) - VirtualOffset, h1 |-> VirtualHeight(first),
              t2 |-> DecimalOf(first.time), h2 |-> first.height]
        ELSE IF timeDecimal >= DecimalOf(last.time)
        THEN [t1 |-> DecimalOf(last.time), h1 |-> last.height,
              t2 |-> DecimalOf(last.time) + VirtualOffset, h2 |-> VirtualHeight(last)]
        ELSE [t1 |-> DecimalOf(sortedTides[idx].time), h1 |-> sortedTides[idx].height,
              t2 |-> DecimalOf(sortedTides[idx + 1].time), h2 |-> sortedTides[idx + 1].height]

\* (h1 + h2) / 2 + ((h1 - h2) / 2) * cos(pi * (t - t1) / duration), to two
\* decimals; a duration of zero makes the angle, and the height, NaN.  A
\* value halfway between two hundredths is taken to the upper one.
Interpolate(seg, t) ==
    LET duration == seg.t2 - seg.t1
    IN  IF duration = 0 THEN NaN
        ELSE RoundDiv(1000 * (seg.h1 + seg.h2)
                        + (seg.h1 - seg.h2) * CosPermille(t - seg.t1, duration),
                      2000)

\* an interpolation that never looks for the bounding events: it takes the
\* first two of the day
getTideHeightAtTime_FirstSegment(timeDecimal, tides) ==
    LET s == SortByDecimal(tides)
    IN  IF Len(tides) = 0 THEN 0
        ELSE IF Len(tides) = 1 THEN s[1].height
        ELSE Interpolate([t1 |-> DecimalOf(s[1].time), h1 |-> s[1].height,
                          t2 |-> DecimalOf(s[2].time), h2 |-> s[2].height], timeDecimal)

getTideHeightAtTime(timeDecimal, tides) ==
    IF Len(tides) = 0 THEN 0
    ELSE Interpolate(Segment(timeDecimal, SortByDecimal(tides)), timeDecimal)

\* a curve that stops before 24 h and is drawn from a single event too
generateTideCurve_OpenEnd(tides) ==
    IF Len(tides) < 1 THEN <<>>
    ELSE [k \in 1..(CurveEnd \div CurveStep) |->
             [time |-> CurveStep * (k - 1),
              height |-> getTideHeightAtTime(CurveStep * (k - 1), tides)]]

\* a point every 15 minutes from 0 to 24 h, both included
generateTideCurve(tides) ==
    IF Len(tides) < 2 THEN <<>>
    ELSE [k \in 1..(CurveEnd \div CurveStep + 1) |->
             [time |-> CurveStep * (k - 1),
              height |-> getTideHeightAtTime(CurveStep * (k - 1), tides)]]

\* a slope test that takes equal samples for a rising tide
calculateCurrentHeight_NotFalling(tides, currentDecimal) ==
    LET hNow  == getTideHeightAtTime(currentDecimal, tides)
        hNext == getTideHeightAtTime(currentDecimal + LookAhead, tides)
    IN  [height |-> hNow, isRising |-> hNext >= hNow]

\* calculateCurrentHeight when the clock of the device reads currentDecimal
calculateCurrentHeight(tides, currentDecimal) ==
    LET hNow  == getTideHeightAtTime(currentDecimal, tides)
        hNext == getTideHeightAtTime(currentDecimal + LookAhead, tides)
    IN  [height |-> hNow, isRising |-> hNext > hNow]

\* the event lists the functions are called with
TideLists ==
    { <<>>,
      << Ev(Pad2(9, 30), 180, "HIGH") >>,
      MOCK_TIDES,
      << Ev(Pad2(5, 0), 400, "HIGH"), Ev(Pad2(11, 0), 50, "LOW"),
         Ev(Pad2(17, 0), 400, "HIGH"), Ev(Pad2(23, 0), 50, "LOW") >>,
      \* a neap tide: high and low water one centimetre apart
      << Ev(Pad2(5, 0), 101, "HIGH"), Ev(Pad2(11, 0), 100, "LOW") >>,
      \* out of order, an hour written with one digit
      << Ev(Pad2(11, 24), 60, "LOW"), Ev(Raw1(5, 12), 410, "HIGH") >>,
      \* two events at 11:00
      << Ev(Pad2(5, 0), 400, "HIGH"), Ev(Pad2(11, 0), 50, "LOW"),
         Ev(Pad2(11, 0), 60, "LOW"), Ev(Pad2(17, 0), 410, "HIGH") >>,
      \* two events at 05:00, the first of the day
      << Ev(Pad2(5, 0), 400, "HIGH"), Ev(Pad2(5, 0), 380, "HIGH"),
         Ev(Pad2(11, 0), 60, "LOW") >>,
      \* heights about mean sea level, as WorldTides gives them: the low
      \* water of the evening lies below it
      << Ev(Pad2(3, 0), 380, "HIGH"), Ev(Pad2(9, 0), 20, "LOW"),
         Ev(Pad2(15, 0), 400, "HIGH"), Ev(Pad2(21, 0), -10, "LOW") >> }

\* the times getTideHeightAtTime is asked for: some times of the day, the
\* times of the events and the times halfway between two consecutive events
QueryTimes(tides) ==
    LET s == SortByDecimal(tides)
    IN  {0, 1800, 4800, 13200, CurveEnd}
        \cup {DecimalOf(s[i].time) : i \in 1..Len(s)}
        \cup {(DecimalOf(s[i].time) + DecimalOf(s[i + 1].time)) \div 2 : i \in 1..(Len(s) - 1)}

\* what now.getHours() + now.getMinutes() / 60 can be: a whole minute
ClockTimes == {0, 2990, 3000, 3600, 4800, 6600, 6840, 9000, 14390}

TideMathInit ==
    /\ rev = "current"
    /\ env = [host |-> "production", worldTidesKey |-> FALSE]
    /\ now = 0
    /\ store = [k \in CacheKeys |-> NoEntry]
    /\ portCache = NoCatalog
    /\ run = IdleRun
    /\ late = {}
    /\ nQueries = 0
    /\ calc \in {[NoCalc EXCEPT !.tides = tides] : tides \in TideLists}
    /\ app = NoApp

\* getTideHeightAtTime(timeDecimal, tides) is called
HeightAt(timeDecimal) ==
    /\ calc' = [calc EXCEPT !.op = "getTideHeightAtTime", !.t = timeDecimal,
                            !.height = getTideHeightAtTime(timeDecimal, calc.tides),
                            !.isRising = FALSE, !.curve = <<>>, !.time = Pad2(0, 0)]
    /\ UNCHANGED <<app, rev, env, now, store, portCache, run, late, nQueries>>

\* generateTideCurve(tides) is called
GenerateTideCurve ==
    /\ calc' = [calc EXCEPT !.op = "generateTideCurve", !.t = 0, !.height = 0,
                            !.isRising = FALSE, !.curve = generateTideCurve(calc.tides),
                            !.time = Pad2(0, 0)]
    /\ UNCHANGED <<app, rev, env, now, store, portCache, run, late, nQueries>>

\* calculateCurrentHeight(tides) is called when the clock reads currentDecimal
CalculateCurrentHeight(currentDecimal) ==
    /\ LET current == calculateCurrentHeight(calc.tides, currentDecimal)
       IN  calc' = [calc EXCEPT !.op = "calculateCurrentHeight", !.t = currentDecimal,
                                !.height = current.height,
                                !.isRising = current.isRising, !.curve = <<>>,
                                !.time = Pad2(0, 0)]
    /\ UNCHANGED <<app, rev, env, now, store, portCache, run, late, nQueries>>

\* decimalToTime(decimal), the decimal hour in tenths of a minute: the two
\* while loops bring it into [0, 24 h), the hour is its floor and the minute
\* is Math.round of the rest, which is 60 from half a minute before the hour
decimalToTime(decimal) ==
    LET d == ((decimal % (24 * 600)) + 24 * 600) % (24 * 600)
        h == d \div 600
        m == RoundDiv(d - 600 * h, 10)
    IN  Pad2(h, m)

\* the strings "HH:MM" of the model that are times of the day
ValidTimes == {Pad2(h, m) : h \in {0, 5, 12, 23}, m \in {0, 7, 30, 59}}

\* the decimal hours decimalToTime is called with: the ticks of the axis and
\* points of the curve, hours outside the day, hours that are no whole
\* minute, and the decimals of the valid times
Decimals ==
    {0, 150, 3600, 13650, 14400, 15000, 0 - 150, 3594, 3597, 8613, 14397}
    \cup {DecimalOf(s) : s \in ValidTimes}

\* decimalToTime(decimal) is called
DecimalToTime(decimal) ==
    /\ calc' = [calc EXCEPT !.op = "decimalToTime", !.t = decimal, !.height = 0,
                            !.isRising = FALSE, !.curve = <<>>,
                            !.time = decimalToTime(decimal)]
    /\ UNCHANGED <<app, rev, env, now, store, portCache, run, late, nQueries>>

TideMathNext ==
    \/ \E timeDecimal \in QueryTimes(calc.tides) : HeightAt(timeDecimal)
    \/ GenerateTideCurve
    \/ \E currentDecimal \in ClockTimes : CalculateCurrentHeight(currentDecimal)
    \/ \E decimal \in Decimals : DecimalToTime(decimal)

TideMathSpec == TideMathInit /\ [][TideMathNext]_vars

-----------------------------------------------------------------------------
(* The claims of the specification about tideMath *)

\* the pairs of consecutive events of the day, earlier one first, that are
\* apart in time
ConsecutivePairs(tides) ==
    LET s == SortByDecimal(tides)
    IN  { <<s[i], s[i + 1]>> : i \in {j \in 1..(Len(s) - 1) :
                                        DecimalOf(s[j].time) < DecimalOf(s[j + 1].time)} }

MidTime(pair) == (DecimalOf(pair[1].time) + DecimalOf(pair[2].time)) \div 2

Lower(pair) == IF pair[1].height < pair[2].height THEN pair[1].height ELSE pair[2].height

Upper(pair) == IF pair[1].height < pair[2].height THEN pair[2].height ELSE pair[1].height

CurveOf(tides, curve) ==
    IF Len(tides) < 2 THEN curve = <<>>
    ELSE /\ Len(curve) = 97
         /\ \A k \in 1..Len(curve) :
                /\ 4 * curve[k].time = (k - 1) * 600
                /\ curve[k].height = getTideHeightAtTime(curve[k].time, tides)
         /\ \A k \in 1..(Len(curve) - 1) : curve[k].time < curve[k + 1].time
         /\ curve[1].time = 0 /\ curve[Len(curve)].time = 24 * 600

\* C18: generateTideCurve returns the empty sequence for fewer than 2 events
\* and otherwise exactly the 97 samples at t = 0, 0.25, ..., 24, both ends
\* included, in strictly ascending order of time, each with the height
\* heightAt(t); a second call on the same events returns the same sequence.
C18_CurveSamples ==
    [][calc'.op = "generateTideCurve"
       => /\ CurveOf(calc'.tides, calc'.curve)
          /\ (calc.op = "generateTideCurve" /\ calc.tides = calc'.tides)
             => calc'.curve = calc.curve]_vars

\* C18's case: the curve of a day of four events, 97 points up to 24 h, the
\* point of 05:15 at the height of the high water of 05:12
C18_Witness ==
    /\ calc.op = "generateTideCurve"
    /\ calc.tides = MOCK_TIDES
    /\ Len(calc.curve) = 97
    /\ calc.curve[97].time = CurveEnd
    /\ calc.curve[22].height = 410

\* two of the events have the same time
SharedTime(tides) ==
    \E i, j \in 1..Len(tides) :
        i # j /\ timeToDecimal(tides[i].time) = timeToDecimal(tides[j].time)

\* C19: when two of the supplied events share an identical time, the curve
\* synthesizer reports an error (DegenerateIntervalError) for the synthesis
\* call instead of producing a height.
C19_DegenerateIntervalError ==
    (calc.op # "none" /\ SharedTime(calc.tides)) => calc.error = "DegenerateIntervalError"

\* C19, what the code does instead: every call returns, and with events of
\* the same time it returns heights between the lowest and the highest
\* height the events and their virtual neighbours have
C19_HeightsFromSharedTime ==
    (calc.op \in {"getTideHeightAtTime", "calculateCurrentHeight"} /\ SharedTime(calc.tides))
    => /\ calc.height # NaN
       /\ calc.height >= 0
       /\ calc.height <= SeqMax(Heights(calc.tides)) + VirtualAmplitude

\* C20: calculateCurrentHeight returns height = heightAt(now) and isRising =
\* true iff heightAt(now + epsilon) > heightAt(now) strictly, both samples by
\* the same interpolation over the same events, epsilon being 0.02 h; equal
\* samples give isRising = false.
C20_CurrentHeightAndSlope ==
    calc.op = "calculateCurrentHeight"
    => /\ calc.height = getTideHeightAtTime(calc.t, calc.tides)
       /\ calc.isRising <=> (getTideHeightAtTime(calc.t + LookAhead, calc.tides) > calc.height)
       /\ getTideHeightAtTime(calc.t + LookAhead, calc.tides) = calc.height => ~calc.isRising

\* C20's case: at 15:00, between the low water of 11:24 and the high water
\* of 17:41, the tide rises
C20_Witness ==
    /\ calc.op = "calculateCurrentHeight"
    /\ calc.tides = MOCK_TIDES
    /\ calc.t = 9000
    /\ calc.isRising
    /\ calc.height > 60 /\ calc.height < 402

-----------------------------------------------------------------------------
(* The claims of the specification about the resolution of the station *)

\* the stations of SPANISH_PORT_MAPPING whose key is one of keys
StationsOfKeys(keys) ==
    {SPANISH_PORT_MAPPING[i].name :
         i \in {j \in 1..Len(SPANISH_PORT_MAPPING) : SPANISH_PORT_MAPPING[j].key \in keys}}

\* the station the call uses is one the name it was given matches: one of
\* the same name if there is any, else one whose name contains it or is
\* contained in it if there is any
NameBeforeDistance ==
    /\ (rev \in {"current", "aemet250"} /\ StationResolved)
       => LET exact  == StationsOfKeys({ExactKey(run.hint)})
              partly == StationsOfKeys(PartialKeys(run.hint))
          IN  /\ exact # {} => run.referenceLocationName \in exact
              /\ (exact = {} /\ partly # {}) => run.referenceLocationName \in partly
    /\ (rev = "ihmApprox" /\ run.port # NoPort)
       => LET exact  == {p \in {IhmPorts[i] : i \in 1..Len(IhmPorts)} :
                             NameEquals(run.hint, p.puerto)}
              partly == {p \in {IhmPorts[i] : i \in 1..Len(IhmPorts)} :
                             NameIncludes(run.hint, p.puerto)}
          IN  /\ exact # {} => run.port \in exact
              /\ (exact = {} /\ partly # {}) => run.port \in partly

\* C21: station resolution follows the priority exact name equality >
\* substring containment in either direction > nearest by distance: a station
\* matched by name is returned even if another station is nearer, and
\* distance decides only when no name matches.
C21_NameBeforeDistance == rev \in {"current", "ihmApprox", "aemet250"} => NameBeforeDistance

\* C21, where it holds: the current service and the service of the IHM
\* catalog
C21_CurrentAndIhm == rev \in {"current", "ihmApprox"} => NameBeforeDistance

\* the stations of the catalog of the revision at the very coordinates the
\* call asked for
StationsAtPlace ==
    IF rev = "ihmApprox"
    THEN {IhmPorts[i].puerto :
              i \in {j \in 1..Len(IhmPorts) :
                         /\ IhmPorts[j].lat = run.requestedCoordinates.lat
                         /\ IhmPorts[j].lon = run.requestedCoordinates.lng}}
    ELSE {SPANISH_PORT_MAPPING[i].name :
              i \in {j \in 1..Len(SPANISH_PORT_MAPPING) :
                         /\ SPANISH_PORT_MAPPING[j].lat = run.requestedCoordinates.lat
                         /\ SPANISH_PORT_MAPPING[j].lng = run.requestedCoordinates.lng}}

\* the stations the name given to the resolver matches
StationsOfHint ==
    IF rev = "ihmApprox"
    THEN {IhmPorts[i].puerto :
              i \in {j \in 1..Len(IhmPorts) : NameIncludes(run.hint, IhmPorts[j].puerto)}}
    ELSE StationsOfKeys({ExactKey(run.hint)} \cup PartialKeys(run.hint))

\* the call asked for the coordinates of a station and the name it gave the
\* resolver matches no other station
AtStation ==
    /\ rev \in {"current", "ihmApprox", "aemet250"}
    /\ IF rev = "ihmApprox" THEN run.port # NoPort ELSE StationResolved
    /\ StationsAtPlace # {}
    /\ StationsOfHint \subseteq StationsAtPlace

\* C22: for a query point whose coordinates are exactly those of a
\* catalogued station (and no name hint matching a different station), the
\* resolver returns that station with distance 0.
C22_StationAtDistanceZero ==
    AtStation => /\ run.referenceLocationName \in StationsAtPlace
                 /\ run.distance.known /\ run.distance.value = 0

\* C22 as the code has it: the resolver returns that station; the distance
\* it reports is 0, and it reports one unless it found the station by its
\* name in the current service, whose name steps return the entry of the
\* table as it is.
C22_StationAtPlace ==
    AtStation => /\ run.referenceLocationName \in StationsAtPlace
                 /\ run.distance.known => run.distance.value = 0
                 /\ ~run.distance.known => (rev = "current" /\ run.matched)

\* C22's case: the coordinates of Gijon, whose reverse lookup failed, resolve
\* to Gijon at distance 0
C22_Witness ==
    /\ AtStation
    /\ rev = "current"
    /\ run.locationQuery = "43.55, -5.66"
    /\ run.hint = "43.55, -5.66"
    /\ run.referenceLocationName = "Gijón"
    /\ run.distance = [known |-> TRUE, value |-> 0]

(***************************************************************************)
(* The claims of the specification about the fallback distance, the        *)
(* liveness of a query and the catalog of stations                         *)
(***************************************************************************)

\* the station the call reports lies farther from the place the call asked
\* for than the fallback distance (250 km, 111 km to the degree)
ReferenceTooFar ==
    LET dLat == run.requestedCoordinates.lat - run.referenceCoordinates.lat
        dLng == run.requestedCoordinates.lng - run.referenceCoordinates.lng
        limit == (100 * MaxFallbackKm) \div 111
    IN  dLat * dLat + dLng * dLng > limit * limit

\* C23: a station farther than the maximum acceptable fallback distance
\* (250 km) from the coordinates of the query is never used as the data
\* station: no provider is called for it, no reference station is reported,
\* and the orchestrator takes the path of the analytic approximation.
C23_FarStationNeverUsed ==
    rev = "aemet250" =>
        /\ run.referenceLocationName # Undefined => ~ReferenceTooFar
        /\ run.providerCalls # <<>> => run.referenceLocationName # Undefined
        /\ (run.pc = "done" /\ run.referenceLocationName = Undefined)
           => /\ run.tidesFrom = "approximation"
              /\ run.result.isApproximate
              /\ run.result.referenceLocationName = Undefined
              /\ run.networkCalls = <<>>

\* C23's case: the call for Paris, more than 250 km from every station, has
\* ended with the approximation and reports no reference station
C23_Witness ==
    /\ rev = "aemet250"
    /\ run.pc = "done"
    /\ run.locationQuery = "Paris"
    /\ run.geocoded
    /\ \A i \in 1..Len(SPANISH_PORT_MAPPING) :
           getHaversineDistance(run.lat, run.lng, SPANISH_PORT_MAPPING[i].lat,
                                SPANISH_PORT_MAPPING[i].lng) > 225 * 225
    /\ run.result.referenceLocationName = Undefined
    /\ run.result.isApproximate

\* The scheduling of the calls under which a query has to end.  A stage that
\* the code races with a timer (Promise.race with setTimeout) is decided when
\* the timer fires at the latest: the geocoder (5 s), the sun service (5 s),
\* the AEMET adapter (10 s), tablademareas (10 s) and WorldTides (8 s) of the
\* current service, and the sun service and the AEMET adapter of the revision
\* with the fallback distance.  The remaining requests are awaited without a
\* timer (fetch of part_005, lines 77, 180, 214, 462, 497, 560, 586, 780):
\* their actions are taken only if the network answers, which nothing obliges
\* it to do.
\*
\* The action of a raced stage is enabled exactly while the call is at the
\* stage and every step of it leaves the stage, so weak fairness of the action
\* says that the call is not at the stage forever.  It is written in that form
\* for the stages whose action computes the rest of the call, because TLC
\* evaluates ENABLED of such an action without sharing subexpressions.
Raced(revision, stage) == []<>~(rev = revision /\ run.pc = stage)

TimedStages ==
    /\ WF_vars(GeocodeReturns)
    /\ Raced("current", "sun")
    /\ Raced("current", "aemet")
    /\ Raced("current", "tablademareas")
    /\ Raced("current", "worldtides")
    /\ Raced("aemet250", "sun")
    /\ Raced("aemet250", "aemet")

LiveSpec == Init /\ [][Next]_vars /\ TimedStages

\* C24: every query eventually reaches DONE: fetchTideData returns a snapshot
\* even when any subset of the external calls never responds, because each
\* call is bounded by a timeout whose expiry is that stage's failure.  (The
\* revision that rejects on a failure is left out: whether a call may reject
\* is the subject of C1.)
C24_EveryQueryCompletes ==
    (rev # "ihmOnly" /\ run.pc = "geocoding") ~> (run.pc = "done")

\* C24, where it holds: every stage of the current service is raced with a
\* timer and a query of it reaches DONE
C24_CurrentCompletes ==
    (rev = "current" /\ run.pc = "geocoding") ~> (run.pc = "done")

-----------------------------------------------------------------------------
(***************************************************************************)
(* The App component (src/App.tsx, lines 126-342): its state, the handlers *)
(* of the header, the context menu and the error screen, and the callbacks *)
(* of the geolocation and of the fetchTideData calls it awaits.            *)
(*                                                                         *)
(* app.data is "null" or the requestedName of the snapshot, which is the   *)
(* query of the call that produced it.  app.pending are the queries of the *)
(* fetchTideData calls awaited, in the order they were issued; the current *)
(* service resolves each of them and rejects none (its catch block returns *)
(* the mocked day), so the catch block of loadData does not run.           *)
(* app.lastQuery and app.loads record the calls of loadData: the query of  *)
(* the last one and their number.                                          *)
(***************************************************************************)

MaxLoads == 3

MaxLocates == 2

\* what the user types in the search box or in the context menu
Terms == {"Gijón", "Paris"}

\* `${latitude}, ${longitude}` of the position the browser gives
Positions == {"43.55, -5.66"}

\* String.prototype.trim
Trim(text) == IF text = " " THEN "" ELSE text

\* lines 225-239: the screen "Error cargando datos" replaces the page
ErrorScreen == app.data = "null" /\ ~app.loading

\* loadData up to its await, lines 146-149
loadData(a, loc) ==
    [a EXCEPT !.loading = TRUE, !.pending = Append(@, loc), !.lastQuery = loc,
              !.loads = @ + 1]

\* the browser has a geolocation API or not
AppInit ==
    /\ rev = "current"
    /\ env = [host |-> "production", worldTidesKey |-> FALSE]
    /\ now = 0
    /\ store = [k \in CacheKeys |-> NoEntry]
    /\ portCache = NoCatalog
    /\ run = IdleRun
    /\ late = {}
    /\ nQueries = 0
    /\ calc = NoCalc
    /\ app \in {[NoApp EXCEPT !.geolocation = g] : g \in BOOLEAN}

\* the effect of the first render, lines 166-170
InitialLoad ==
    /\ ~app.mounted
    /\ app' = [loadData(app, app.location) EXCEPT !.mounted = TRUE]
    /\ UNCHANGED <<rev, env, now, store, portCache, run, late, nQueries, calc>>

\* lines 182-185, called by the search box of the header
handleSearch(term) ==
    /\ app.mounted
    /\ ~ErrorScreen
    /\ app.loads < MaxLoads
    /\ app' = loadData([app EXCEPT !.location = term], term)
    /\ UNCHANGED <<rev, env, now, store, portCache, run, late, nQueries, calc>>

\* lines 187-195
handleContextMenu ==
    /\ app.mounted
    /\ ~ErrorScreen
    /\ app' = [app EXCEPT !.contextMenu = [visible |-> TRUE, inputValue |-> app.location]]
    /\ UNCHANGED <<rev, env, now, store, portCache, run, late, nQueries, calc>>

\* onChange of the input of the context menu, line 323
ContextInput(text) ==
    /\ app.contextMenu.visible
    /\ ~ErrorScreen
    /\ app' = [app EXCEPT !.contextMenu.inputValue = text]
    /\ UNCHANGED <<rev, env, now, store, portCache, run, late, nQueries, calc>>

\* lines 197-203
handleContextSubmit ==
    /\ app.contextMenu.visible
    /\ ~ErrorScreen
    /\ app.loads < MaxLoads
    /\ app' = IF Trim(app.contextMenu.inputValue) # ""
              THEN [loadData([app EXCEPT !.location = app.contextMenu.inputValue],
                             app.contextMenu.inputValue)
                       EXCEPT !.contextMenu.visible = FALSE]
              ELSE app
    /\ UNCHANGED <<rev, env, now, store, portCache, run, late, nQueries, calc>>

\* lines 172-180: a click anywhere else closes the context menu
handleClick ==
    /\ app.contextMenu.visible
    /\ app' = [app EXCEPT !.contextMenu.visible = FALSE]
    /\ UNCHANGED <<rev, env, now, store, portCache, run, late, nQueries, calc>>

\* lines 205-222 up to the callbacks; without the API there is only an alert
handleLocate ==
    /\ app.mounted
    /\ ~ErrorScreen
    /\ app.locating < MaxLocates
    /\ app' = IF app.geolocation
              THEN [app EXCEPT !.loading = TRUE, !.locating = @ + 1]
              ELSE app
    /\ UNCHANGED <<rev, env, now, store, portCache, run, late, nQueries, calc>>

\* the success callback of getCurrentPosition, lines 208-213
GeolocationSuccess(coordString) ==
    /\ app.locating > 0
    /\ app.loads < MaxLoads
    /\ app' = loadData([app EXCEPT !.locating = @ - 1, !.location = "Tu Ubicación"],
                       coordString)
    /\ UNCHANGED <<rev, env, now, store, portCache, run, late, nQueries, calc>>

\* the error callback of getCurrentPosition, lines 214-218
GeolocationError ==
    /\ app.locating > 0
    /\ app' = [app EXCEPT !.locating = @ - 1, !.loading = FALSE]
    /\ UNCHANGED <<rev, env, now, store, portCache, run, late, nQueries, calc>>

\* one of the awaited calls resolves: lines 150-151 and the finally block,
\* lines 162-164
FetchResolves(i) ==
    /\ i \in 1..Len(app.pending)
    /\ app' = [app EXCEPT !.data = app.pending[i], !.loading = FALSE,
                          !.pending = SubSeq(@, 1, i - 1) \o SubSeq(@, i + 1, Len(@))]
    /\ UNCHANGED <<rev, env, now, store, portCache, run, late, nQueries, calc>>

\* the button "Reintentar" of the error screen, lines 230-235
Retry ==
    /\ ErrorScreen
    /\ app.loads < MaxLoads
    /\ app' = loadData(app, app.location)
    /\ UNCHANGED <<rev, env, now, store, portCache, run, late, nQueries, calc>>

AppNext ==
    \/ InitialLoad
    \/ \E term \in Terms : handleSearch(term)
    \/ handleContextMenu
    \/ \E text \in Terms \cup {" "} : ContextInput(text)
    \/ handleContextSubmit
    \/ handleClick
    \/ handleLocate
    \/ \E coordString \in Positions : GeolocationSuccess(coordString)
    \/ GeolocationError
    \/ \E i \in 1..MaxLoads : FetchResolves(i)
    \/ Retry

AppSpec == AppInit /\ [][AppNext]_vars

-----------------------------------------------------------------------------
(* The claims of the specification about the App component *)

\* every call of loadData has completed
AllCompleted == app.mounted /\ app.pending = <<>> /\ app.locating = 0

\* C25: when a second query is issued while an earlier one is still pending,
\* the result of the earlier query is discarded: once both have completed, in
\* either order, the snapshot the UI holds is the one of the query issued
\* last.
C25_LatestQueryWins ==
    AllCompleted => app.data = app.lastQuery

\* C28: the UI never shows a blank or error screen: the state (data = null
\* and loading = false) is unreachable under every interleaving of the initial
\* load, the searches and the callbacks of the geolocation.
C28_NoErrorScreen ==
    ~(app.data = "null" /\ app.loading = FALSE)

\* C28, what the component keeps: once a snapshot has been set there is
\* always one, so the error screen can only appear before the first call
\* resolves
C28_DataStays ==
    [][app.data # "null" => app'.data # "null"]_vars

-----------------------------------------------------------------------------
(* The claims of the specification about the catalog of stations *)

MockedDay(r) ==
    /\ r.pc = "done"
    /\ r.result.isApproximate
    /\ r.result.dataDisclaimer \notin {Undefined, ""}
    /\ r.result.dataSource = "Simulación local"
    /\ r.result.tides = MOCK_TIDES
    /\ Len(r.result.tides) = 4
    /\ r.result.chartData = ChartPoints(MOCK_TIDES)

\* a step in which loadPorts gives the call no station: the download fails or
\* brings an empty list, or the list memoized by an earlier call is empty
LoadPortsGivesNone ==
    \/ /\ run.pc = "catalog"
       /\ run'.pc # "catalog"
       /\ portCache'.ports = <<>>
    \/ /\ portCache.loaded
       /\ portCache.ports = <<>>
       /\ run.pc = (IF rev = "ihmApprox" THEN "geocoding" ELSE "idle")
       /\ run'.pc # run.pc

\* C27: if the station catalog cannot be loaded (the load fails or yields
\* zero stations), fetchTideData does not raise but returns the mocked day,
\* labelled as simulated: isApproximate = true, a non-empty disclaimer, a source
\* label naming the simulation, and the 4 mock events with their sampled curve.
C27_CatalogFailureMocks ==
    [][(rev \in {"ihmApprox", "ihmOnly"} /\ LoadPortsGivesNone) => MockedDay(run')]_vars

\* C27, where it holds: the IHM revision with the approximation
C27_WithApproximation ==
    [][(rev = "ihmApprox" /\ LoadPortsGivesNone) => MockedDay(run')]_vars

-----------------------------------------------------------------------------
(* The claims of the specification about coordinates given as the query *)

\* the query of the call is a pair "lat, lon" within range, and the geocoder
\* has returned
CoordinatesGeocoded ==
    /\ rev = "current"
    /\ run.pc \notin {"idle", "geocoding"}
    /\ run.locationQuery \in {"43.55, -5.66", "43.550,-5.66"}

\* C29: for a query that is a literal "lat, lon" pair within range, the
\* geocoding returns exactly those coordinates whatever the reverse lookup
\* does; when the reverse lookup yields no name, the name is the raw
\* coordinates; and no forward-geocoding request is made.
C29_CoordinatesAsWritten ==
    CoordinatesGeocoded =>
        /\ run.requestedCoordinates = [lat |-> 4355, lng |-> -566]
        /\ run.geocoded
        /\ run.hint \in {"Gijón, Asturias, España", "43.55, -5.66"}
        /\ run.geoRequests = <<"reverse">>

\* C29's case: the reverse lookup of a pair written without a space has
\* failed, and the call goes on at the coordinates of the pair under their
\* printed form
C29_Witness ==
    /\ CoordinatesGeocoded
    /\ run.locationQuery = "43.550,-5.66"
    /\ run.hint = "43.55, -5.66"
    /\ run.requestedCoordinates = [lat |-> 4355, lng |-> -566]
    /\ run.pc = "sun"

-----------------------------------------------------------------------------
(* The claims of the specification about the disclosure of the fallback *)

NearestStationDisclaimer ==
    "Usamos el puerto más cercano (${port.puerto}, a ${distanceKm} km) porque la ubicación solicitada no tiene estación IHM."

\* the call has returned events of a provider
ProviderEventsReturned ==
    /\ run.pc = "done"
    /\ run.tidesFrom \in {"AEMET", "cache", "tablademareas", "WorldTides", "IHM"}

\* C30: whenever the events of a returned snapshot come from a station
\* chosen by distance fallback (no name match), the snapshot discloses it: the
\* disclaimer names the substitution by the nearest station and its distance
\* in kilometres, and a genuine name match is distinguishable from a distance
\* fallback in the result.
C30_FallbackDisclosed ==
    (rev \in {"current", "ihmApprox"} /\ ProviderEventsReturned)
    => /\ ~run.matched => /\ run.result.dataDisclaimer = NearestStationDisclaimer
                          /\ run.distance.known
       /\ run.matched => run.result.dataDisclaimer # NearestStationDisclaimer

\* C30, where it holds: the IHM revision with the approximation
C30_IhmDiscloses ==
    (rev = "ihmApprox" /\ ProviderEventsReturned)
    => /\ ~run.matched => /\ run.result.dataDisclaimer = NearestStationDisclaimer
                          /\ run.distance.known
       /\ run.matched => run.result.dataDisclaimer # NearestStationDisclaimer

-----------------------------------------------------------------------------
(* C31: the approximation gives four events, two of each type *)

\* the number of events of one type in a list of events
EventsOfType(tides, type) ==
    Cardinality({i \in 1..Len(tides) : tides[i].type = type})

\* the returned snapshot holds the events of the approximation
ApproximationReturned == run.pc = "done" /\ run.tidesFrom = "approximation"

\* C31: whenever the approximation gave the events of the snapshot, for every
\* place and date of the model, the snapshot has exactly 4 events, 2 of them
\* HIGH and 2 of them LOW, and the events are the value of the formula at the
\* place and (in the current service) at one of the dates: nothing else
\* enters them.
C31_FourEventsTwoOfEach ==
    ApproximationReturned
    => /\ Len(run.result.tides) = 4
       /\ EventsOfType(run.result.tides, "HIGH") = 2
       /\ EventsOfType(run.result.tides, "LOW") = 2
       /\ rev = "current"
          => \E date \in Dates :
                 run.result.tides = calculateApproximateTides(run.lat, run.lng, date)
       /\ rev # "current"
          => run.result.tides = SortByTime(IhmApprox_calculateApproximateTides(run.lat, run.lng))

\* the current service approximated at a station of non-zero latitude factor
C31_Witness ==
    /\ ApproximationReturned
    /\ rev = "current"
    /\ SinLatPermille(run.lat) # 0
    /\ run.result.tides[1].type = "LOW"

\* the revisions with the fixed schedule approximated
C31_WitnessSchedule == ApproximationReturned /\ rev \in {"ihmApprox", "aemet250"}

-----------------------------------------------------------------------------
(* C32: the requested place and the station stay apart in the snapshot *)

\* the coordinates the current service obtains for the query of the run: the
\* pair the query writes, else the place Nominatim found, else the default
RequestedPlace ==
    IF CoordMatch(run.locationQuery)
    THEN ParsedCoords(run.locationQuery)
    ELSE IF run.geocoded
    THEN [lat |-> NominatimSearch(run.locationQuery).lat,
          lng |-> NominatimSearch(run.locationQuery).lng]
    ELSE [lat |-> 4224, lng |-> -872]

\* C32: every snapshot the current service returns has requestedName equal to
\* the query of the call and requestedCoordinates equal to the coordinates
\* obtained for the query (written in it, geocoded, or the default), while
\* name and coordinates of the station used are reported as
\* referenceLocationName and referenceCoordinates (which locationName and
\* coordinates repeat).
C32_RequestedAndResolved ==
    (rev = "current" /\ run.pc = "done")
    => /\ run.result.requestedName = run.locationQuery
       /\ run.result.requestedCoordinates = RequestedPlace
       /\ \E i \in 1..Len(SPANISH_PORT_MAPPING) :
              /\ run.result.referenceLocationName = SPANISH_PORT_MAPPING[i].name
              /\ run.result.referenceCoordinates =
                     [lat |-> SPANISH_PORT_MAPPING[i].lat, lng |-> SPANISH_PORT_MAPPING[i].lng]
       /\ run.result.locationName = run.result.referenceLocationName
       /\ run.result.coordinates = run.result.referenceCoordinates

\* a query answered with a station that lies elsewhere and has another name
C32_Witness ==
    /\ rev = "current" /\ run.pc = "done"
    /\ run.locationQuery = "Paris"
    /\ run.geocoded
    /\ run.result.requestedCoordinates # run.result.referenceCoordinates
    /\ run.result.requestedName # run.result.referenceLocationName

-----------------------------------------------------------------------------
(* C33: the height before the first and after the last event of the day *)

\* the query of the last call lies at or before the first event of the day
BeforeFirst ==
    /\ calc.op = "getTideHeightAtTime"
    /\ calc.tides # <<>>
    /\ calc.t <= DecimalOf(SortByDecimal(calc.tides)[1].time)

\* the query of the last call lies after the first and at or after the last
\* event of the day
AfterLast ==
    /\ calc.op = "getTideHeightAtTime"
    /\ calc.tides # <<>>
    /\ ~BeforeFirst
    /\ calc.t >= DecimalOf(SortByDecimal(calc.tides)[Len(calc.tides)].time)

\* the event next to the query of a call that lies outside the events
BoundaryEvent ==
    IF BeforeFirst THEN SortByDecimal(calc.tides)[1]
    ELSE SortByDecimal(calc.tides)[Len(calc.tides)]

\* boundary + 2.5 for a low water, max(0, boundary - 2.5) for a high water
VirtualOf(event) ==
    IF event.type = "LOW" THEN event.height + 250
    ELSE IF event.height - 250 > 0 THEN event.height - 250 ELSE 0

\* the height the cosine gives between the boundary event and the virtual
\* event 6.21 h before (after) it
ExtrapolatedHeight ==
    LET b == BoundaryEvent
        t == DecimalOf(b.time)
    IN  IF BeforeFirst
        THEN Interpolate([t1 |-> t - 3726, h1 |-> VirtualOf(b), t2 |-> t, h2 |-> b.height], calc.t)
        ELSE Interpolate([t1 |-> t, h1 |-> b.height, t2 |-> t + 3726, h2 |-> VirtualOf(b)], calc.t)

\* the height lies between the boundary height and the virtual height
BetweenBoundaryAndVirtual ==
    LET b == BoundaryEvent.height
        v == VirtualOf(BoundaryEvent)
    IN  /\ calc.height >= (IF b < v THEN b ELSE v)
        /\ calc.height <= (IF b < v THEN v ELSE b)

\* C33: for a query before the first (after the last) event, heightAt is the
\* interpolation between the boundary event and a virtual event 6.21 h before
\* (after) it, of height boundary + 2.5 for a LOW and max(0, boundary - 2.5)
\* for a HIGH boundary; the result lies between the two heights and is never
\* negative.
C33_VirtualNeighbour ==
    (BeforeFirst \/ AfterLast)
    => /\ calc.height = ExtrapolatedHeight
       /\ BetweenBoundaryAndVirtual
       /\ calc.height >= 0

\* C33, where it holds: the interpolation and its two bounds for every list,
\* and a height that is not negative when the boundary event's is not
C33_BetweenTheTwoHeights ==
    (BeforeFirst \/ AfterLast)
    => /\ calc.height = ExtrapolatedHeight
       /\ BetweenBoundaryAndVirtual
       /\ BoundaryEvent.height >= 0 => calc.height >= 0

\* the floor of the virtual height in use: a query after a single high water
\* of 1.80 m
C33_FloorReached ==
    /\ AfterLast
    /\ BoundaryEvent.type = "HIGH"
    /\ VirtualOf(BoundaryEvent) = 0
    /\ calc.height < BoundaryEvent.height

-----------------------------------------------------------------------------
(* C34: decimalToTime and the round trip through timeToDecimal *)

\* the string is "HH:MM" with HH in 00..23 and MM in 00..59
ValidTime(time) ==
    /\ Len(time.hh) = 2 /\ Len(time.mm) = 2
    /\ DigitsValue(time.hh) \in 0..23
    /\ DigitsValue(time.mm) \in 0..59

\* C34: decimalToTime brings any decimal hour into [0, 24) and always returns
\* a valid "HH:MM" (HH in 00..23, MM in 00..59), and for every valid "HH:MM"
\* s, decimalToTime(timeToDecimal(s)) = s.
C34_ValidTimeAndRoundTrip ==
    calc.op = "decimalToTime"
    => /\ ValidTime(calc.time)
       /\ \A s \in ValidTimes : calc.t = DecimalOf(s) => calc.time = s

\* C34, where it holds: the hour is always in 00..23, the minute in 00..60;
\* the string is valid for every decimal that is less than half a minute
\* before the next hour, the ticks and the points of the curve among them;
\* the round trip gives the string back.
C34_UpToTheLastHalfMinute ==
    calc.op = "decimalToTime"
    => /\ Len(calc.time.hh) = 2 /\ DigitsValue(calc.time.hh) \in 0..23
       /\ Len(calc.time.mm) = 2 /\ DigitsValue(calc.time.mm) \in 0..60
       /\ (calc.t % 600) < 595 => ValidTime(calc.time)
       /\ \A s \in ValidTimes : calc.t = DecimalOf(s) => calc.time = s

\* the round trip of 23:59, and an hour outside the day brought into it
C34_RoundTripReached ==
    /\ calc.op = "decimalToTime"
    /\ calc.t \in {DecimalOf(Pad2(23, 59)), 15000}
    /\ calc.time \in {Pad2(23, 59), Pad2(1, 0)}

-----------------------------------------------------------------------------
(* C35: the interpolated segment is never of length zero *)

\* the height of a query time of a non-empty list comes from a segment with
\* t1 < t2, and is a number
ProperSegment(timeDecimal, tides) ==
    LET seg == Segment(timeDecimal, SortByDecimal(tides))
    IN  /\ seg.t1 < seg.t2
        /\ getTideHeightAtTime(timeDecimal, tides) # NaN

\* C35: for every non-empty event list, lists with several events at the same
\* time included, and every query time, the segment heightAt selects for the
\* interpolation has t1 < t2, so the denominator t2 - t1 is never zero: for
\* the query of getTideHeightAtTime, for the two queries of
\* calculateCurrentHeight and for every point of the curve.
C35_DenominatorNotZero ==
    calc.tides # <<>>
    => /\ calc.op = "getTideHeightAtTime"
          => ProperSegment(calc.t, calc.tides) /\ calc.height # NaN
       /\ calc.op = "calculateCurrentHeight"
          => /\ ProperSegment(calc.t, calc.tides)
             /\ ProperSegment(calc.t + LookAhead, calc.tides)
             /\ calc.height # NaN
       /\ calc.op = "generateTideCurve"
          => \A k \in 1..Len(calc.curve) :
                 /\ ProperSegment(calc.curve[k].time, calc.tides)
                 /\ calc.curve[k].height # NaN

\* a query at the time two events of the middle of the day share
C35_Witness ==
    /\ calc.op = "getTideHeightAtTime"
    /\ SharedTime(calc.tides)
    /\ \E i, j \in 1..Len(calc.tides) :
           /\ i # j
           /\ DecimalOf(calc.tides[i].time) = calc.t
           /\ DecimalOf(calc.tides[j].time) = calc.t
    /\ calc.t > DecimalOf(SortByDecimal(calc.tides)[1].time)
    /\ calc.t < DecimalOf(SortByDecimal(calc.tides)[Len(calc.tides)].time)
    /\ calc.height = 50

-----------------------------------------------------------------------------
(* C36: the sampled curve of the snapshot *)

\* C36: every snapshot fetchTideData returns has a sampled curve (chartData)
\* with at least one point, also when the winning provider returned a single
\* event.
C36_CurveNotEmpty ==
    run.pc = "done" => run.result.chartData > 0

\* C36, where it holds: the curve has its 97 points exactly when the snapshot
\* has at least two events, which the approximations, tablademareas and the
\* mocked day always give; a snapshot of one event has an empty curve
C36_CurveFromTwoEvents ==
    run.pc = "done"
    => /\ run.result.chartData = (IF Len(run.result.tides) >= 2 THEN 97 ELSE 0)
       /\ run.tidesFrom \in {"approximation", "tablademareas", "mock"}
          => run.result.chartData = 97
       /\ rev = "current" => Len(run.result.tides) >= 1

-----------------------------------------------------------------------------
(* C37: the loading flag while calls of loadData overlap *)

\* C37: the loading flag is true whenever at least one call of loadData is
\* still pending: neither an earlier query that finishes nor the error
\* callback of the geolocation clears it while a later query is in flight.
C37_LoadingWhilePending ==
    app.pending # <<>> => app.loading

\* C37, where it holds: every start of loadData and of handleLocate sets the
\* flag, and the flag is set only while a query or a position request is
\* under way (or before the first render's query); what clears it is the end
\* of any one query or the error callback, whatever else is in flight
C37_SetOnEveryStart ==
    [][/\ Len(app'.pending) > Len(app.pending) => app'.loading
       /\ app'.locating > app.locating => app'.loading
       /\ app'.loading => (app'.pending # <<>> \/ app'.locating > 0 \/ ~app'.mounted)
       /\ (app.loading /\ ~app'.loading)
          => (Len(app'.pending) < Len(app.pending) \/ app'.locating < app.locating)]_vars

-----------------------------------------------------------------------------
(* C38: the answer of an AEMET request the orchestrator gave up on *)

\* the step is the late answer of an abandoned AEMET request
LateAnswer == \E key \in late : key \notin late'

\* C38: a provider call abandoned on timeout has no later effect: when the
\* late response of an AEMET call arrives, after the race timed out and the
\* query moved on, it changes neither the snapshot of the query nor the cache
\* entry of the station.
C38_LateAnswerHasNoEffect ==
    [][LateAnswer => (run' = run /\ store' = store)]_vars

\* C38, where it holds: the late answer never changes the query or its
\* snapshot, and of the cache it changes at most the entry of the station the
\* abandoned call was for
C38_SnapshotUntouched ==
    [][LateAnswer
       => /\ run' = run
          /\ \A key \in CacheKeys : store'[key] # store[key] => (key \in late /\ key \notin late')]_vars

-----------------------------------------------------------------------------
(* C39: what is written to the cache *)

\* the step writes the cache entry of the key
Written(key) == store'[key] # store[key]

\* the step is the answer of an AEMET request to the running query, which
\* goes on with the events of that answer
AemetAnswersQuery ==
    /\ run.pc = "aemet"
    /\ run'.tidesFrom = "AEMET"
    /\ run'.tides # <<>>

\* C39: every cache entry written holds at least 1 event and is written only
\* when a provider fetch (the AEMET request of the running query, or one it
\* gave up on) returned events, which are the entry's; a step that ends a
\* query with a failed, empty or approximated result writes nothing, and no
\* step deletes an entry.
C39_CacheWrites ==
    [][/\ \A key \in CacheKeys :
              Written(key)
              => /\ store'[key] # NoEntry
                 /\ Len(store'[key].tides) >= 1
                 /\ store'[key].savedAt = now
                 /\ \E payload \in AemetPayloads :
                        store'[key].tides = normalizeAemetTides(payload)
                 /\ AemetAnswersQuery \/ LateAnswer
                 /\ AemetAnswersQuery => SortByTime(store'[key].tides) = run'.tides
       /\ (run'.pc = "done" /\ run.pc # "done" /\ run'.tidesFrom # "AEMET")
          => store' = store
       /\ \A key \in CacheKeys : store[key] # NoEntry => store'[key] # NoEntry]_vars

\* every entry of the cache holds at least 1 event
C39_EntriesHoldEvents ==
    \A key \in CacheKeys : store[key] # NoEntry => Len(store[key].tides) >= 1

\* a query that found no entry for Vigo ended with AEMET's events, which are
\* now the entry of the station
C39_Witness ==
    /\ run.pc = "done"
    /\ run.tidesFrom = "AEMET"
    /\ run.atFetch.entry = NoEntry
    /\ store["vigo"] # NoEntry
    /\ SortByTime(store["vigo"].tides) = run.tides
    /\ store["vigo"].savedAt = now

====
